---- MODULE Spec2Model ----
(***************************************************************************)
(* A model of the ADDER compressed codec core (adder-codec-core):          *)
(*   - the ADU component serializer (AduInterBlock, AduChannel, Adu),      *)
(*   - the residual predictor (predict_residual_from_prev),                *)
(*   - the block aggregator (Frame, Cube, Block),                          *)
(*   - the plane size (PlaneSize) of both crates,                          *)
(*   - the intra residual transform, the ADU cube counters and the         *)
(*     adaptive frequency model of the arithmetic coder,                   *)
(* and of two parts of the transcoder crate: the integration of one event  *)
(* pixel (EventPixel) and the pipeline of SimulProcessor.                  *)
(* Each subsystem has its own specification over its own variables; the    *)
(* variables of the other subsystems stay at their idle values.            *)
(***************************************************************************)
EXTENDS Integers, Sequences, FiniteSets, TLC

VARIABLES
    \* ---- ADU serializer (SpecInterBlock) ----
    c_pc,       \* position of the test driver: "start", "compressed", "eof",
                \* "decoded", "checked", "panic"
    c_kind,     \* which component the driver handles: "inter", "channel", "adu"
    c_dtm,      \* delta_t_max of the CodecMetadata / CompressedInput
    c_input,    \* the component handed to compress
    c_enc,      \* the encoder: [ctx, out, ok]
    c_ret,      \* what compress returned: "none", "Ok", "Err"
    c_dec,      \* the decoder: [ctx, pos, trace, panic]
    c_output,   \* the component decompress returned
    c_eof,      \* the symbol decoded under the eof context after the component
    \* ---- residual predictor (SpecPredict) ----
    p_pc,       \* "in" before the call, "out" after it
    p_prev,     \* previous: EventCoordless
    p_next,     \* next: EventCoordless
    p_dtm,      \* dtm
    p_res,      \* the EventResidual returned
    \* ---- block aggregator (SpecFrame) ----
    f_frame,    \* the Frame: [cubes, cube_width, cube_height, color, index_hashmap]
    f_last,     \* the last add_event call: [event, ret, cube_idx]
    f_count,    \* number of add_event calls made
    f_log,      \* history: the events of the calls that returned Ok, in order
    \* ---- delta-t residual offset (SpecOffset) ----
    o_pc,       \* "start", "coded", "decoded"
    o_dtm,      \* delta_t_max
    o_resid,    \* two delta-t residuals
    o_sym,      \* their symbols
    o_back,     \* the residuals the inverse gives for the symbols
    \* ---- plane size (SpecPlane) ----
    ps_crate,   \* whose PlaneSize::new was called: "core", "rs", "none"
    ps_args,    \* the arguments of the last call: <<width, height, channels>>
    ps_ret,     \* what it returned: [ret, plane] or [ret, err]
    ps_plane,   \* the PlaneSize the caller holds (the default one at first)
    \* ---- intra residual transforms (SpecIntra) ----
    ir_pc,      \* "start" before get_intra_residual_transforms, "done" after it
    ir_events,  \* the events of the block: occupied position -> EventCoordless
    ir_dtm,     \* dtm
    ir_qparam,  \* qparam
    ir_d,       \* d_residuals after the residual loop
    ir_dt,      \* dt_residuals after the residual loop
    ir_coef,    \* arr_i16 before the quantization
    ir_arr,     \* arr_i16 after the quantization
    \* ---- Adu::new / Adu::add_cube (SpecAdu) ----
    ad_build,   \* overflow checks of the build: "debug" (panic) or "release" (wrap)
    ad_adu,     \* the Adu: [head_event_t, cubes_r, cubes_g, cubes_b]
    ad_last,    \* the last add_cube call: [channel, cube, ret]
    ad_calls,   \* number of add_cube calls made by the model
    \* ---- Fenwick frequency model (SpecModel) ----
    fm_ctx,     \* the context the model is switched to
    fm_trees,   \* per context id, the Fenwick tree over its alphabet
    fm_seen,    \* number of symbols observed
    \* ---- EventPixel::add_intensity (SpecPixel) ----
    px_pc,      \* "idle" between calls, "loop" inside add_intensity, "panic"
    px_pixel,   \* the EventPixel: [integration, delta_t, d, fire_count, event_to_send, last_event]
    px_tracker, \* the IntegrationTracker of the call
    px_first,   \* first_iter
    px_sender,  \* sender: the events pushed so far
    px_fired,   \* the last fire_event call: [empty ("empty" or "full"), delta_t, event, failed]
    px_calls,   \* number of add_intensity calls made
    \* ---- SimulProcessor (SpecSimul, SpecSimulFair) ----
    sm_run,     \* run(): "loop", "left" (after a break), "returned", "aborted"
    sm_left,    \* why run() left its loop: "none", "end", "send"
    sm_answer,  \* what the last source.consume(1) returned: "none", "ok", "end", "other"
    sm_spin,    \* parity of the loop iterations that met Err(_)
    sm_produced,\* number of batches the source has returned
    sm_sent,    \* number of batches events_tx.send accepted
    sm_queue,   \* the channel: batches sent and not yet received
    sm_tx,      \* TRUE while events_tx lives
    sm_framer,  \* the framing thread: "recv", "stopped", "panicked"
    sm_why,     \* why the framing thread stopped: "none", "limit", "closed"
    sm_received,\* the batches the framer has ingested, in order
    sm_frames   \* [frame_count, written, frame_max]

c_vars == <<c_pc, c_kind, c_dtm, c_input, c_enc, c_ret, c_dec, c_output, c_eof>>
p_vars == <<p_pc, p_prev, p_next, p_dtm, p_res>>
f_vars == <<f_frame, f_last, f_count, f_log>>
o_vars == <<o_pc, o_dtm, o_resid, o_sym, o_back>>
ps_vars == <<ps_crate, ps_args, ps_ret, ps_plane>>
ir_vars == <<ir_pc, ir_events, ir_dtm, ir_qparam, ir_d, ir_dt, ir_coef, ir_arr>>
ad_vars == <<ad_build, ad_adu, ad_last, ad_calls>>
fm_vars == <<fm_ctx, fm_trees, fm_seen>>
px_vars == <<px_pc, px_pixel, px_tracker, px_first, px_sender, px_fired, px_calls>>
sm_vars == <<sm_run, sm_left, sm_answer, sm_spin, sm_produced, sm_sent, sm_queue, sm_tx, sm_framer, sm_why, sm_received, sm_frames>>
vars == <<c_vars, p_vars, f_vars, o_vars, ps_vars, ir_vars, ad_vars, fm_vars, px_vars, sm_vars>>
\* what an action of one subsystem leaves alone
c_rest == <<p_vars, f_vars, o_vars, ps_vars, ir_vars, ad_vars, fm_vars, px_vars, sm_vars>>
o_rest == <<c_vars, p_vars, f_vars, ps_vars, ir_vars, ad_vars, fm_vars, px_vars, sm_vars>>
p_rest == <<c_vars, f_vars, o_vars, ps_vars, ir_vars, ad_vars, fm_vars, px_vars, sm_vars>>
f_rest == <<c_vars, p_vars, o_vars, ps_vars, ir_vars, ad_vars, fm_vars, px_vars, sm_vars>>
ps_rest == <<c_vars, p_vars, f_vars, o_vars, ir_vars, ad_vars, fm_vars, px_vars, sm_vars>>
ir_rest == <<c_vars, p_vars, f_vars, o_vars, ps_vars, ad_vars, fm_vars, px_vars, sm_vars>>
ad_rest == <<c_vars, p_vars, f_vars, o_vars, ps_vars, ir_vars, fm_vars, px_vars, sm_vars>>
fm_rest == <<c_vars, p_vars, f_vars, o_vars, ps_vars, ir_vars, ad_vars, px_vars, sm_vars>>
px_rest == <<c_vars, p_vars, f_vars, o_vars, ps_vars, ir_vars, ad_vars, fm_vars, sm_vars>>
sm_rest == <<c_vars, p_vars, f_vars, o_vars, ps_vars, ir_vars, ad_vars, fm_vars, px_vars>>

Min(a, b) == IF a <= b THEN a ELSE b
Max(a, b) == IF a >= b THEN a ELSE b

(***************************************************************************)
(* Program constants.                                                      *)
(***************************************************************************)
BLOCK_SIZE == 16
BLOCK_SIZE_AREA == BLOCK_SIZE * BLOCK_SIZE
Positions == 0 .. (BLOCK_SIZE_AREA - 1)

\* the reserved D residual that marks a slot without an event
D_ENCODE_NO_EVENT == 256
\* largest magnitude of a D residual (difference of two u8)
D_RESIDUAL_MAX == 255

I16_MIN == 0 - 32768
I16_MAX == 32767
\* `x as i16` for an integer x
AsI16(x) == ((x + 32768) % 65536) - 32768
\* `x as u8` for an integer x
AsU8(x) == x % 256

\* a field filled from a symbol the decoder read out of step with the encoder
Poison == 0 - 99999

(***************************************************************************)
(* Contexts: the fixed context ids and the alphabet of each.               *)
(***************************************************************************)
u8_general_context == "u8_general"
d_context == "d_context"
dt_context == "dt_context"
eof_context == "eof"
ContextIds == {u8_general_context, d_context, dt_context, eof_context}

AlphabetSize(ctx, dtm) ==
    CASE ctx = u8_general_context -> 256
      [] ctx = d_context -> 2 * D_RESIDUAL_MAX + 2
      [] ctx = dt_context -> 2 * dtm + 1
      [] OTHER -> 1

(***************************************************************************)
(* The arithmetic coder, seen from the serializer: the encoder appends one *)
(* symbol coded under the model's current context; the decoder hands back  *)
(* the symbol as long as it decodes under the context it was coded under.  *)
(* A record of the stream carries, besides the context and the symbol, the *)
(* field and block position it was written for (history, not on the wire). *)
(***************************************************************************)
NewEncoder(ctx) == [ctx |-> ctx, out |-> <<>>, ok |-> TRUE]

EncSetContext(e, ctx) == [e EXCEPT !.ctx = ctx]

\* encoder.encode(Some(&sym), stream): Err when the model has no such symbol
EncEncode(e, sym, dtm, tag, pos) ==
    IF sym >= 0 /\ sym < AlphabetSize(e.ctx, dtm)
    THEN [e EXCEPT !.out = Append(@, [ctx |-> e.ctx, none |-> FALSE, sym |-> sym,
                                      tag |-> tag, pos |-> pos]),
                   !.ok = TRUE]
    ELSE [e EXCEPT !.ok = FALSE]

\* encoder.encode(None, stream): the end-of-stream marker
EncEncodeNone(e, tag) ==
    [e EXCEPT !.out = Append(@, [ctx |-> e.ctx, none |-> TRUE, sym |-> 0,
                                 tag |-> tag, pos |-> 0]),
              !.ok = TRUE]

NewDecoder(ctx) == [ctx |-> ctx, pos |-> 1, trace |-> <<>>, panic |-> FALSE,
                    kind |-> "sym", sym |-> 0]

DecSetContext(d, ctx) == [d EXCEPT !.ctx = ctx]

\* decoder.decode(stream): the decoder after the call; kind/sym hold the result:
\* "sym" (Some(sym)), "none" (None), "garbage" (a symbol decoded under another
\* context than it was coded under), "err" (the stream has ended)
DecDecode(d, stream) ==
    IF d.pos > Len(stream)
    THEN [d EXCEPT !.kind = "err", !.sym = Poison]
    ELSE LET r == stream[d.pos] IN
         [d EXCEPT !.pos = @ + 1,
                   !.trace = Append(@, d.ctx),
                   !.kind = IF r.ctx # d.ctx THEN "garbage"
                            ELSE IF r.none THEN "none" ELSE "sym",
                   !.sym = IF r.ctx # d.ctx \/ r.none THEN Poison ELSE r.sym]

\* decoder.decode(stream).unwrap().unwrap(): panics on Err and on None
DecDecodeUnwrap(d, stream) ==
    IF d.panic THEN d
    ELSE LET d1 == DecDecode(d, stream) IN
         IF d1.kind \in {"err", "none"} THEN [d1 EXCEPT !.panic = TRUE] ELSE d1

(***************************************************************************)
(* Symbol mappings of the residuals.                                       *)
(***************************************************************************)
\* D residual -> non-negative d_context symbol, and back
d_resid_offset(d_resid) == d_resid + D_RESIDUAL_MAX
d_resid_offset_inverse(sym) == sym - D_RESIDUAL_MAX

\* dt_resid_offset_i16(dt_resid: i16, delta_t_max: u32) -> usize.  A negative
\* sum stands for the huge usize the cast gives: no alphabet holds it.
dt_resid_offset_i16(dt_resid, delta_t_max) == dt_resid + delta_t_max

\* dt_resid_offset_i16_inverse(symbol: usize, delta_t_max: u32) -> i16
dt_resid_offset_i16_inverse(sym, delta_t_max) == AsI16(sym - delta_t_max)

(***************************************************************************)
(* The serializer threads one value through its steps.  On the encoder     *)
(* side it is r = [enc, ret]: the encoder and the Result so far; a step    *)
(* that follows a `?` does nothing once ret = "Err".  On the decoder side  *)
(* it is r = [dec, val]: the decoder and the component being filled; a     *)
(* step does nothing once the decoder has panicked.                        *)
(***************************************************************************)
\* encoder.encode(Some(&sym), stream)?
TryEncode(r, sym, dtm, tag, pos) ==
    IF r.ret = "Err" THEN r
    ELSE LET e1 == EncEncode(r.enc, sym, dtm, tag, pos) IN
         [enc |-> e1, ret |-> IF e1.ok THEN "Ok" ELSE "Err"]

\* a call whose Result the caller drops: the caller goes on
Dropped(r) == [enc |-> r.enc, ret |-> "Ok"]

WithContext(r, ctx) == [enc |-> EncSetContext(r.enc, ctx), ret |-> r.ret]

\* several bytes, each through TryEncode
RECURSIVE TryEncodeBytes(_, _, _, _)
TryEncodeBytes(r, bytes, dtm, tag) ==
    IF r.ret = "Err" \/ bytes = <<>> THEN r
    ELSE TryEncodeBytes(TryEncode(r, Head(bytes), dtm, tag, 0), Tail(bytes), dtm, tag)

\* several bytes, each Result dropped
RECURSIVE EncodeBytesDropped(_, _, _, _)
EncodeBytesDropped(r, bytes, dtm, tag) ==
    IF r.ret = "Err" \/ bytes = <<>> THEN r
    ELSE EncodeBytesDropped(Dropped(TryEncode(r, Head(bytes), dtm, tag, 0)),
                            Tail(bytes), dtm, tag)

(***************************************************************************)
(* AduInterBlock: compress.                                                *)
(***************************************************************************)
\* The loops over the 256 positions visit lo .. hi-1 in ascending order: the
\* lower half first, then the upper half from the state the lower half left.
RECURSIVE compress_d_loop(_, _, _, _, _, _)
compress_d_loop(lo, hi, d_residuals, r, dtm, tag) ==
    IF r.ret = "Err" \/ lo >= hi THEN r
    ELSE IF hi = lo + 1
    THEN TryEncode(r, d_resid_offset(d_residuals[lo]), dtm, tag, lo)
    ELSE compress_d_loop((lo + hi) \div 2, hi, d_residuals,
                         compress_d_loop(lo, (lo + hi) \div 2, d_residuals, r, dtm, tag),
                         dtm, tag)

compress_d_residuals(d_residuals, r, dtm, tag) ==
    compress_d_loop(0, BLOCK_SIZE_AREA, d_residuals, WithContext(r, d_context), dtm, tag)

\* a variant that emits a delta-t symbol for every position, event or not
RECURSIVE compress_dt_loop_every_position(_, _, _, _, _, _, _)
compress_dt_loop_every_position(lo, hi, dt_residuals, d_residuals, r, dtm, tag) ==
    IF r.ret = "Err" \/ lo >= hi THEN r
    ELSE IF hi = lo + 1
    THEN TryEncode(r, dt_resid_offset_i16(dt_residuals[lo], dtm), dtm, tag, lo)
    ELSE compress_dt_loop_every_position((lo + hi) \div 2, hi, dt_residuals, d_residuals,
             compress_dt_loop_every_position(lo, (lo + hi) \div 2, dt_residuals,
                                             d_residuals, r, dtm, tag),
             dtm, tag)

RECURSIVE compress_dt_loop(_, _, _, _, _, _, _)
compress_dt_loop(lo, hi, dt_residuals, d_residuals, r, dtm, tag) ==
    IF r.ret = "Err" \/ lo >= hi THEN r
    ELSE IF hi = lo + 1
    THEN IF d_residuals[lo] # D_ENCODE_NO_EVENT
         THEN TryEncode(r, dt_resid_offset_i16(dt_residuals[lo], dtm), dtm, tag, lo)
         ELSE r
    ELSE compress_dt_loop((lo + hi) \div 2, hi, dt_residuals, d_residuals,
                          compress_dt_loop(lo, (lo + hi) \div 2, dt_residuals,
                                           d_residuals, r, dtm, tag),
                          dtm, tag)

\* a variant that forgets encoder.model.set_context(dt_context)
compress_dt_residuals_same_context(dt_residuals, d_residuals, r, dtm, tag) ==
    compress_dt_loop(0, BLOCK_SIZE_AREA, dt_residuals, d_residuals, r, dtm, tag)

compress_dt_residuals(dt_residuals, d_residuals, r, dtm, tag) ==
    compress_dt_loop(0, BLOCK_SIZE_AREA, dt_residuals, d_residuals,
                     WithContext(r, dt_context), dtm, tag)

\* the statements of AduInterBlock::compress after `encoder.encode(shift)?`
InterBlockResiduals(block, r, dtm) ==
    IF r.ret = "Err" THEN r
    ELSE Dropped(compress_dt_residuals(block.t_residuals, block.d_residuals,
                    Dropped(compress_d_residuals(block.d_residuals, r, dtm,
                                                 "inter.d_residuals")),
                    dtm, "inter.t_residuals"))

\* AduInterBlock::compress
InterBlockCompress(block, r, dtm) ==
    InterBlockResiduals(block,
        TryEncode(WithContext(r, u8_general_context), block.shift_loss_param, dtm,
                  "inter.shift_loss_param", 0),
        dtm)

(***************************************************************************)
(* AduInterBlock: decompress.                                              *)
(***************************************************************************)
D_RESIDUALS_EMPTY == [i \in Positions |-> D_ENCODE_NO_EVENT]
T_RESIDUALS_ZERO == [i \in Positions |-> 0]

\* a decoded symbol turned into a field; a garbage symbol poisons it
SymU8(d) == IF d.kind = "sym" THEN AsU8(d.sym) ELSE Poison
SymD(d) == IF d.kind = "sym" THEN d_resid_offset_inverse(d.sym) ELSE Poison
\* a variant that forgets to take delta_t_max off the symbol
SymDtNoOffset(d, dtm) == IF d.kind = "sym" THEN AsI16(d.sym) ELSE Poison
SymDt(d, dtm) == IF d.kind = "sym" THEN dt_resid_offset_i16_inverse(d.sym, dtm) ELSE Poison

DecWithContext(r, ctx) == [dec |-> DecSetContext(r.dec, ctx), val |-> r.val]

\* val.f = decoder.decode(stream).unwrap().unwrap() as u8
PutU8(r, d1, f) ==
    [dec |-> d1, val |-> IF d1.panic THEN r.val ELSE [r.val EXCEPT ![f] = SymU8(d1)]]
DecodeU8(r, f, stream) ==
    IF r.dec.panic THEN r ELSE PutU8(r, DecDecodeUnwrap(r.dec, stream), f)

\* val.f[i] = the D residual of the next symbol
PutD(r, d1, f, i) ==
    [dec |-> d1,
     val |-> IF d1.panic THEN r.val ELSE [r.val EXCEPT ![f][i] = SymD(d1)]]

\* val.f[i] = dt_resid_offset_i16_inverse(symbol.unwrap(), delta_t_max)
PutDt(r, d1, f, i, dtm) ==
    [dec |-> d1,
     val |-> IF d1.panic THEN r.val ELSE [r.val EXCEPT ![f][i] = SymDt(d1, dtm)]]

RECURSIVE decompress_d_loop(_, _, _, _)
decompress_d_loop(lo, hi, r, stream) ==
    IF r.dec.panic \/ lo >= hi THEN r
    ELSE IF hi = lo + 1
    THEN PutD(r, DecDecodeUnwrap(r.dec, stream), "d_residuals", lo)
    ELSE decompress_d_loop((lo + hi) \div 2, hi,
                           decompress_d_loop(lo, (lo + hi) \div 2, r, stream), stream)

decompress_d_residuals(r, stream) ==
    decompress_d_loop(0, BLOCK_SIZE_AREA, DecWithContext(r, d_context), stream)

\* a variant that gives a position without an event the residual of symbol 0
RECURSIVE decompress_dt_loop_symbol_zero(_, _, _, _, _, _)
decompress_dt_loop_symbol_zero(lo, hi, r, f, stream, dtm) ==
    IF r.dec.panic \/ lo >= hi THEN r
    ELSE IF hi = lo + 1
    THEN IF r.val.d_residuals[lo] # D_ENCODE_NO_EVENT
         THEN PutDt(r, DecDecodeUnwrap(r.dec, stream), f, lo, dtm)
         ELSE [r EXCEPT !.val[f][lo] = dt_resid_offset_i16_inverse(0, dtm)]
    ELSE decompress_dt_loop_symbol_zero((lo + hi) \div 2, hi,
             decompress_dt_loop_symbol_zero(lo, (lo + hi) \div 2, r, f, stream, dtm),
             f, stream, dtm)

\* f names the delta-t array of the block: t_residuals or dt_residuals
RECURSIVE decompress_dt_loop(_, _, _, _, _, _)
decompress_dt_loop(lo, hi, r, f, stream, dtm) ==
    IF r.dec.panic \/ lo >= hi THEN r
    ELSE IF hi = lo + 1
    THEN IF r.val.d_residuals[lo] # D_ENCODE_NO_EVENT
         THEN PutDt(r, DecDecodeUnwrap(r.dec, stream), f, lo, dtm)
         ELSE r
    ELSE decompress_dt_loop((lo + hi) \div 2, hi,
                            decompress_dt_loop(lo, (lo + hi) \div 2, r, f, stream, dtm),
                            f, stream, dtm)

decompress_dt_residuals(r, f, stream, dtm) ==
    decompress_dt_loop(0, BLOCK_SIZE_AREA, DecWithContext(r, dt_context), f, stream, dtm)

EmptyInterBlock ==
    [shift_loss_param |-> 0, d_residuals |-> D_RESIDUALS_EMPTY,
     t_residuals |-> T_RESIDUALS_ZERO]

\* a variant that reads shift_loss_param under whatever context is active
InterBlockDecompressKeepContext(d, stream, dtm) ==
    decompress_dt_residuals(
        decompress_d_residuals(
            DecodeU8([dec |-> d, val |-> EmptyInterBlock], "shift_loss_param", stream),
            stream),
        "t_residuals", stream, dtm)

\* AduInterBlock::decompress: [dec |-> decoder after the call, val |-> Self]
InterBlockDecompress(d, stream, dtm) ==
    decompress_dt_residuals(
        decompress_d_residuals(
            DecodeU8([dec |-> DecSetContext(d, u8_general_context),
                      val |-> EmptyInterBlock],
                     "shift_loss_param", stream),
            stream),
        "t_residuals", stream, dtm)

(***************************************************************************)
(* Multi-byte integers: to_be_bytes / from_be_bytes.                       *)
(***************************************************************************)
U16ToBeBytes(n) == << (n \div 256) % 256, n % 256 >>
U32ToBeBytes(n) == << (n \div 16777216) % 256, (n \div 65536) % 256,
                      (n \div 256) % 256, n % 256 >>

\* val.f = from_be_bytes of n decoded bytes, high byte first
PutByte(r, d1, f) ==
    [dec |-> d1,
     val |-> IF d1.panic THEN r.val
             ELSE [r.val EXCEPT ![f] = IF @ = Poison \/ SymU8(d1) = Poison THEN Poison
                                       ELSE @ * 256 + SymU8(d1)]]
RECURSIVE DecodeBeBytes(_, _, _, _)
DecodeBeBytes(r, f, n, stream) ==
    IF r.dec.panic \/ n = 0 THEN r
    ELSE DecodeBeBytes(PutByte(r, DecDecodeUnwrap(r.dec, stream), f), f, n - 1, stream)

(***************************************************************************)
(* AduIntraBlock and AduCube: compress and decompress.                     *)
(***************************************************************************)
IntraBlockResiduals(block, r, dtm) ==
    compress_dt_residuals(block.dt_residuals, block.d_residuals,
        compress_d_residuals(block.d_residuals, r, dtm, "intra.d_residuals"),
        dtm, "intra.dt_residuals")

IntraBlockCompress(block, r, dtm) ==
    IntraBlockResiduals(block,
        TryEncode(
            TryEncodeBytes(
                TryEncode(WithContext(r, u8_general_context), block.head_event_d, dtm,
                          "intra.head_event_d", 0),
                U32ToBeBytes(block.head_event_t), dtm, "intra.head_event_t"),
            block.shift_loss_param, dtm, "intra.shift_loss_param", 0),
        dtm)

EmptyIntraBlock ==
    [head_event_d |-> 0, head_event_t |-> 0, shift_loss_param |-> 0,
     d_residuals |-> D_RESIDUALS_EMPTY, dt_residuals |-> T_RESIDUALS_ZERO]

IntraBlockDecompress(d, stream, dtm) ==
    decompress_dt_residuals(
        decompress_d_residuals(
            DecodeU8(
                DecodeBeBytes(
                    DecodeU8([dec |-> DecSetContext(d, u8_general_context),
                              val |-> EmptyIntraBlock],
                             "head_event_d", stream),
                    "head_event_t", 4, stream),
                "shift_loss_param", stream),
            stream),
        "dt_residuals", stream, dtm)

\* the blocks are written in index order; the first Err ends the loop
RECURSIVE CompressInterBlocks(_, _, _, _)
CompressInterBlocks(blocks, k, r, dtm) ==
    IF r.ret = "Err" \/ k > Len(blocks) THEN r
    ELSE CompressInterBlocks(blocks, k + 1, InterBlockCompress(blocks[k], r, dtm), dtm)

CubeCompress(cube, r, dtm) ==
    CompressInterBlocks(cube.inter_blocks, 1,
        TryEncodeBytes(
            WithContext(
                IntraBlockCompress(cube.intra_block,
                    TryEncode(
                        TryEncode(WithContext(r, u8_general_context), cube.idx_y, dtm,
                                  "cube.idx_y", 0),
                        cube.idx_x, dtm, "cube.idx_x", 0),
                    dtm),
                u8_general_context),
            U16ToBeBytes(cube.num_inter_blocks), dtm, "cube.num_inter_blocks"),
        dtm)

PutBlock(r, b, f) == [dec |-> b.dec, val |-> [r.val EXCEPT ![f] = b.val]]
PushBlock(r, b, f) == [dec |-> b.dec, val |-> [r.val EXCEPT ![f] = Append(@, b.val)]]

RECURSIVE DecompressInterBlocks(_, _, _, _)
DecompressInterBlocks(n, r, stream, dtm) ==
    IF r.dec.panic \/ n <= 0 THEN r
    ELSE DecompressInterBlocks(n - 1,
             PushBlock(r, InterBlockDecompress(r.dec, stream, dtm), "inter_blocks"),
             stream, dtm)

CubeInterBlocks(r, stream, dtm) ==
    DecompressInterBlocks(r.val.num_inter_blocks, r, stream, dtm)

CubeIntraBlock(r, stream, dtm) ==
    PutBlock(r, IntraBlockDecompress(r.dec, stream, dtm), "intra_block")

EmptyCube ==
    [idx_y |-> 0, idx_x |-> 0, intra_block |-> EmptyIntraBlock,
     num_inter_blocks |-> 0, inter_blocks |-> <<>>]

CubeDecompress(d, stream, dtm) ==
    CubeInterBlocks(
        DecodeBeBytes(
            DecWithContext(
                CubeIntraBlock(
                    DecodeU8(
                        DecodeU8([dec |-> DecSetContext(d, u8_general_context),
                                  val |-> EmptyCube],
                                 "idx_y", stream),
                        "idx_x", stream),
                    stream, dtm),
                u8_general_context),
            "num_inter_blocks", 2, stream),
        stream, dtm)

(***************************************************************************)
(* AduChannel: compress and decompress.                                    *)
(***************************************************************************)
\* for cube in self.cubes.iter() { cube.compress(output)?; }
RECURSIVE CompressCubes(_, _, _, _)
CompressCubes(cubes, k, r, dtm) ==
    IF r.ret = "Err" \/ k > Len(cubes) THEN r
    ELSE CompressCubes(cubes, k + 1, CubeCompress(cubes[k], r, dtm), dtm)

\* a variant that writes num_cubes low byte first
ChannelCompressLittleEndian(channel, r, dtm) ==
    CompressCubes(channel.cubes, 1,
        EncodeBytesDropped(WithContext(r, u8_general_context),
                           << channel.num_cubes % 256, (channel.num_cubes \div 256) % 256 >>,
                           dtm, "channel.num_cubes"),
        dtm)

\* a variant that ends the channel with the eof marker itself
ChannelCompressWithEof(channel, r, dtm) ==
    [enc |-> EncEncodeNone(
                 EncSetContext(
                     CompressCubes(channel.cubes, 1,
                         EncodeBytesDropped(WithContext(r, u8_general_context),
                                            U16ToBeBytes(channel.num_cubes), dtm,
                                            "channel.num_cubes"),
                         dtm).enc,
                     eof_context),
                 "channel.eof"),
     ret |-> "Ok"]

\* AduChannel::compress
ChannelCompress(channel, r, dtm) ==
    CompressCubes(channel.cubes, 1,
        EncodeBytesDropped(WithContext(r, u8_general_context),
                           U16ToBeBytes(channel.num_cubes), dtm, "channel.num_cubes"),
        dtm)

\* for _ in 0..num_cubes { cubes.push(AduCube::decompress(stream, input)); }
RECURSIVE DecompressCubes(_, _, _, _)
DecompressCubes(n, r, stream, dtm) ==
    IF r.dec.panic \/ n <= 0 THEN r
    ELSE DecompressCubes(n - 1,
             PushBlock(r, CubeDecompress(r.dec, stream, dtm), "cubes"),
             stream, dtm)

ChannelCubes(r, stream, dtm) == DecompressCubes(r.val.num_cubes, r, stream, dtm)

\* AduChannel::decompress: [dec, val |-> Self]
ChannelDecompress(d, stream, dtm) ==
    ChannelCubes(
        DecodeBeBytes([dec |-> DecSetContext(d, u8_general_context),
                       val |-> [num_cubes |-> 0, cubes |-> <<>>]],
                      "num_cubes", 2, stream),
        stream, dtm)

(***************************************************************************)
(* Inputs of the serializer: the blocks the driver compresses.  A block is *)
(* a background (every slot empty, or every slot an event) overwritten at  *)
(* the first NumProbes positions of ProbeList by a (D residual, delta-t    *)
(* residual) pair.                                                         *)
(***************************************************************************)
NumProbes == 2
ProbeList == <<39, 0, 255, 16>>
ProbePositions == {ProbeList[k] : k \in 1 .. NumProbes}

DeltaTMaxChoices == {100, 102000}

\* the i16 residuals nearest to -delta_t_max and +delta_t_max
TResidLow(dtm) == Max(0 - dtm, I16_MIN)
TResidHigh(dtm) == Min(dtm, I16_MAX)

PairChoices(dtm) ==
    { <<D_ENCODE_NO_EVENT, 5>>, <<0 - 2, 0 - 1>>,
      <<D_RESIDUAL_MAX, TResidHigh(dtm)>>, <<0 - D_RESIDUAL_MAX, TResidLow(dtm)>> }

\* (shift_loss_param, background pair)
BlockShapes == { <<0, <<D_ENCODE_NO_EVENT, 0>> >>, <<7, <<D_ENCODE_NO_EVENT, 0>> >>,
                 <<255, <<3, 1>> >> }

MkInterBlock(shape, probes) ==
    [shift_loss_param |-> shape[1],
     d_residuals |-> [i \in Positions |->
                        IF i \in ProbePositions THEN probes[i][1] ELSE shape[2][1]],
     t_residuals |-> [i \in Positions |->
                        IF i \in ProbePositions THEN probes[i][2] ELSE shape[2][2]]]

InterBlocks(dtm) ==
    { MkInterBlock(shape, probes) :
        shape \in BlockShapes, probes \in [ProbePositions -> PairChoices(dtm)] }

\* the contexts the encoder's and the decoder's model are in before the component
StartContexts == { <<u8_general_context, u8_general_context>>,
                   <<dt_context, eof_context>> }

EventPositions(block) == {i \in Positions : block.d_residuals[i] # D_ENCODE_NO_EVENT}

NoComponent == [shift_loss_param |-> 0]

(***************************************************************************)
(* The driver of the serializer (the tests of interblock.rs and frame.rs): *)
(* compress a component with a fresh encoder, end the stream, decompress   *)
(* with a fresh decoder, decode once more under the eof context.           *)
(***************************************************************************)
CodecIdle ==
    /\ c_pc = "idle" /\ c_kind = "none" /\ c_dtm = 0 /\ c_input = NoComponent
    /\ c_enc = NewEncoder(u8_general_context) /\ c_ret = "none"
    /\ c_dec = NewDecoder(u8_general_context) /\ c_output = NoComponent
    /\ c_eof = "none yet"

CompressInterBlock ==
    /\ c_pc = "start" /\ c_kind = "inter"
    /\ LET r == InterBlockCompress(c_input, [enc |-> c_enc, ret |-> "Ok"], c_dtm) IN
         /\ c_enc' = r.enc
         /\ c_ret' = r.ret
    /\ c_pc' = "compressed"
    /\ UNCHANGED <<c_kind, c_dtm, c_input, c_dec, c_output, c_eof>>
    /\ UNCHANGED c_rest

\* add_eof: the caller switches to the eof context and encodes None
AddEof ==
    /\ c_pc = "compressed"
    /\ c_enc' = EncEncodeNone(EncSetContext(c_enc, eof_context), "eof")
    /\ c_pc' = "eof"
    /\ UNCHANGED <<c_kind, c_dtm, c_input, c_ret, c_dec, c_output, c_eof>>
    /\ UNCHANGED c_rest

DecompressInterBlock ==
    /\ c_pc = "eof" /\ c_kind = "inter"
    /\ LET r == InterBlockDecompress(c_dec, c_enc.out, c_dtm) IN
         /\ c_dec' = r.dec
         /\ c_output' = r.val
         /\ c_pc' = IF r.dec.panic THEN "panic" ELSE "decoded"
    /\ UNCHANGED <<c_kind, c_dtm, c_input, c_enc, c_ret, c_eof>>
    /\ UNCHANGED c_rest

\* what decode gives once the stream holds nothing more: None or an
\* UnexpectedEof error
PastTheEnd == {"none", "err"}

\* decoder.model.set_context(eof_context); decoder.decode(..).unwrap()
DecodeEof ==
    /\ c_pc = "decoded"
    /\ LET d1 == DecDecode(DecSetContext(c_dec, eof_context), c_enc.out) IN
         /\ c_dec' = d1
         /\ c_eof' \in (IF d1.kind = "err" THEN PastTheEnd ELSE {d1.kind})
         /\ c_pc' = IF c_eof' = "err" THEN "panic at eof" ELSE "checked"
    /\ UNCHANGED <<c_kind, c_dtm, c_input, c_enc, c_ret, c_output>>
    /\ UNCHANGED c_rest

PredictIdle ==
    /\ p_pc = "idle" /\ p_prev = [d |-> 0, delta_t |-> 0]
    /\ p_next = [d |-> 0, delta_t |-> 0] /\ p_dtm = 0
    /\ p_res = [d |-> 0, delta_t |-> 0]

FrameIdle ==
    /\ f_frame = [cubes |-> <<>>] /\ f_last = [ret |-> "none"] /\ f_count = 0
    /\ f_log = <<>>

OffsetIdle ==
    /\ o_pc = "idle" /\ o_dtm = 0 /\ o_resid = <<0, 0>> /\ o_sym = <<0, 0>>
    /\ o_back = <<0, 0>>

\* impl Default for PlaneSize (the same in both crates)
PlaneSizeDefault == [width |-> 1, height |-> 1, channels |-> 1]

PlaneIdle ==
    /\ ps_crate = "none" /\ ps_args = <<1, 1, 1>> /\ ps_ret = [ret |-> "none"]
    /\ ps_plane = PlaneSizeDefault

IntraIdle ==
    /\ ir_pc = "idle" /\ ir_events = <<>> /\ ir_dtm = 0 /\ ir_qparam = 0
    /\ ir_d = <<>> /\ ir_dt = <<>> /\ ir_coef = <<>> /\ ir_arr = <<>>

AduIdle ==
    /\ ad_build = "none" /\ ad_adu = <<>> /\ ad_last = [ret |-> "none"] /\ ad_calls = 0

ModelIdle ==
    /\ fm_ctx = "none" /\ fm_trees = <<>> /\ fm_seen = 0

PixelIdle ==
    /\ px_pc = "none" /\ px_pixel = <<>> /\ px_tracker = <<>> /\ px_first = TRUE
    /\ px_sender = <<>> /\ px_fired = [empty |-> "none"] /\ px_calls = 0

SimulIdle ==
    /\ sm_run = "none" /\ sm_left = "none" /\ sm_answer = "none" /\ sm_spin = 0
    /\ sm_produced = 0 /\ sm_sent = 0 /\ sm_queue = <<>> /\ sm_tx = FALSE
    /\ sm_framer = "none" /\ sm_why = "none" /\ sm_received = <<>>
    /\ sm_frames = [frame_count |-> 0, written |-> 0, frame_max |-> 0]

InterBlockInit ==
    /\ c_pc = "start"
    /\ c_dtm \in DeltaTMaxChoices
    /\ c_kind = "inter"
    /\ c_input \in InterBlocks(c_dtm)
    /\ \E sc \in StartContexts :
         /\ c_enc = NewEncoder(sc[1])
         /\ c_dec = NewDecoder(sc[2])
    /\ c_ret = "none"
    /\ c_output = NoComponent
    /\ c_eof = "none yet"
    /\ PredictIdle /\ FrameIdle /\ OffsetIdle /\ PlaneIdle /\ IntraIdle /\ AduIdle /\ ModelIdle /\ PixelIdle /\ SimulIdle

InterBlockNext ==
    \/ CompressInterBlock
    \/ AddEof
    \/ DecompressInterBlock
    \/ DecodeEof

SpecInterBlock == InterBlockInit /\ [][InterBlockNext]_vars

(***************************************************************************)
(* Inter blocks that hold residuals the coder has no symbol for: a D       *)
(* residual past the d_context alphabet and, where an i16 can pass         *)
(* delta_t_max, delta-t residuals one beyond -delta_t_max and +delta_t_max.*)
(***************************************************************************)
D_RESIDUAL_PAST == D_ENCODE_NO_EVENT + 1
RefusedPairs(dtm) ==
    { <<D_RESIDUAL_PAST, 0>> }
    \cup { <<0, t>> : t \in {dtm + 1, 0 - (dtm + 1)} \cap (I16_MIN .. I16_MAX) }

RefusedInit ==
    /\ c_pc = "start"
    /\ c_dtm \in DeltaTMaxChoices
    /\ c_kind = "inter"
    /\ c_input \in { MkInterBlock(shape, probes) :
                        shape \in BlockShapes,
                        probes \in [ProbePositions ->
                                       PairChoices(c_dtm) \cup RefusedPairs(c_dtm)] }
    /\ \E sc \in StartContexts :
         /\ c_enc = NewEncoder(sc[1])
         /\ c_dec = NewDecoder(sc[2])
    /\ c_ret = "none"
    /\ c_output = NoComponent
    /\ c_eof = "none yet"
    /\ PredictIdle /\ FrameIdle /\ OffsetIdle /\ PlaneIdle /\ IntraIdle /\ AduIdle /\ ModelIdle /\ PixelIdle /\ SimulIdle

RefusedNext == CompressInterBlock

SpecRefused == RefusedInit /\ [][RefusedNext]_vars

(***************************************************************************)
(* Inputs of the channel driver: channels of up to MaxCubes cubes, each    *)
(* cube an intra block and up to MaxInter inter blocks.                    *)
(***************************************************************************)
MaxCubes == 2
MaxInter == 1
ChannelDeltaTMax == 100

\* the mostly-empty block of the tests, and a full block with elided slots
SampleProbes(k) ==
    IF k = 1 THEN [i \in ProbePositions |-> <<0 - 2, 0 - 1>>]
    ELSE [i \in ProbePositions |->
            IF i = ProbeList[1] THEN <<D_ENCODE_NO_EVENT, 5>>
            ELSE <<D_RESIDUAL_MAX, ChannelDeltaTMax>>]
SampleInter(k) ==
    IF k = 1 THEN MkInterBlock(<<7, <<D_ENCODE_NO_EVENT, 0>> >>, SampleProbes(1))
    ELSE MkInterBlock(<<255, <<3, 1>> >>, SampleProbes(2))

MkIntraBlock(head_event_d, head_event_t, inter) ==
    [head_event_d |-> head_event_d,
     head_event_t |-> head_event_t,
     shift_loss_param |-> inter.shift_loss_param,
     d_residuals |-> inter.d_residuals,
     dt_residuals |-> inter.t_residuals]

\* AduCube::from_intra_block followed by n add_inter_block calls
MkCube(k, n) ==
    [idx_y |-> IF k = 1 THEN 3 ELSE 255,
     idx_x |-> IF k = 1 THEN 5 ELSE 0,
     intra_block |-> IF k = 1 THEN MkIntraBlock(7, 1000, SampleInter(1))
                     ELSE MkIntraBlock(127, 16909060, SampleInter(2)),
     num_inter_blocks |-> n,
     inter_blocks |-> [j \in 1 .. n |-> SampleInter(1 + ((j + k) % 2))]]

SampleCubes == { MkCube(k, n) : k \in 1 .. 2, n \in 0 .. MaxInter }

CubeSeqs == UNION { [1 .. n -> SampleCubes] : n \in 0 .. MaxCubes }

\* channels whose num_cubes is the number of cubes, and a few where it is not
Channels ==
    { [num_cubes |-> Len(cs), cubes |-> cs] : cs \in CubeSeqs }
    \cup { [num_cubes |-> Len(cs) + 1, cubes |-> cs] : cs \in {cs \in CubeSeqs : Len(cs) <= 1} }
    \cup { [num_cubes |-> 0, cubes |-> cs] : cs \in {cs \in CubeSeqs : Len(cs) = 1} }

\* Adu::new() followed by add_cube calls
Adus ==
    { [head_event_t |-> 0,
       cubes_r |-> [num_cubes |-> Len(r), cubes |-> r],
       cubes_g |-> [num_cubes |-> Len(g), cubes |-> g],
       cubes_b |-> [num_cubes |-> 0, cubes |-> <<>>]] :
        r \in {cs \in CubeSeqs : Len(cs) <= 1}, g \in {cs \in CubeSeqs : Len(cs) <= 1} }

CompressChannel ==
    /\ c_pc = "start" /\ c_kind = "channel"
    /\ LET r == ChannelCompress(c_input, [enc |-> c_enc, ret |-> "Ok"], c_dtm) IN
         /\ c_enc' = r.enc
         /\ c_ret' = r.ret
    /\ c_pc' = "compressed"
    /\ UNCHANGED <<c_kind, c_dtm, c_input, c_dec, c_output, c_eof>>
    /\ UNCHANGED c_rest

\* the channel test reads back what into_writer gave, with or without add_eof
DecompressChannel ==
    /\ c_pc \in {"compressed", "eof"} /\ c_kind = "channel"
    /\ LET r == ChannelDecompress(c_dec, c_enc.out, c_dtm) IN
         /\ c_dec' = r.dec
         /\ c_output' = r.val
         /\ c_pc' = IF r.dec.panic THEN "panic" ELSE "decoded"
    /\ UNCHANGED <<c_kind, c_dtm, c_input, c_enc, c_ret, c_eof>>
    /\ UNCHANGED c_rest

\* Adu::compress is `todo!()`: the call panics before it writes anything
CompressAdu ==
    /\ c_pc = "start" /\ c_kind = "adu"
    /\ c_pc' = "panic"
    /\ UNCHANGED <<c_kind, c_dtm, c_input, c_enc, c_ret, c_dec, c_output, c_eof>>
    /\ UNCHANGED c_rest

SerializerInit ==
    /\ c_pc = "start"
    /\ c_dtm = ChannelDeltaTMax
    /\ \E sc \in StartContexts :
         /\ c_enc = NewEncoder(sc[1])
         /\ c_dec = NewDecoder(sc[2])
         /\ \/ c_kind = "inter" /\ c_input \in {SampleInter(1), SampleInter(2)}
            \/ c_kind = "channel" /\ c_input \in Channels /\ sc[1] = dt_context
            \/ c_kind = "adu" /\ c_input \in Adus /\ sc[1] = dt_context
    /\ c_ret = "none"
    /\ c_output = NoComponent
    /\ c_eof = "none yet"
    /\ PredictIdle /\ FrameIdle /\ OffsetIdle /\ PlaneIdle /\ IntraIdle /\ AduIdle /\ ModelIdle /\ PixelIdle /\ SimulIdle

SerializerNext ==
    \/ CompressInterBlock
    \/ DecompressInterBlock
    \/ CompressChannel
    \/ CompressAdu
    \/ AddEof
    \/ DecompressChannel
    \/ DecodeEof

SpecSerializer == SerializerInit /\ [][SerializerNext]_vars

(***************************************************************************)
(* Streams that end early: what compress wrote is cut after some of its    *)
(* symbols, and the writer may have put an end-of-stream marker there      *)
(* (encode(None) under the context it was in); decompress reads the rest.  *)
(***************************************************************************)
\* how many symbols of a stream of len symbols are kept
CutPoints(len) == {0, 1, 2, len \div 2, len - 1} \cap (0 .. len - 1)

\* the records after the cut: nothing, or encoder.encode(None, stream)
EndMarkers(out, n) ==
    { <<>>, << [ctx |-> out[n + 1].ctx, none |-> TRUE, sym |-> 0,
                tag |-> "eof", pos |-> 0] >> }

CutStream ==
    /\ c_pc = "compressed"
    /\ \E n \in CutPoints(Len(c_enc.out)) : \E marker \in EndMarkers(c_enc.out, n) :
         c_enc' = [c_enc EXCEPT !.out = SubSeq(@, 1, n) \o marker]
    /\ c_pc' = "eof"
    /\ UNCHANGED <<c_kind, c_dtm, c_input, c_ret, c_dec, c_output, c_eof>>
    /\ UNCHANGED c_rest

TruncatedInit ==
    /\ c_pc = "start"
    /\ c_dtm = ChannelDeltaTMax
    /\ \E sc \in StartContexts :
         /\ c_enc = NewEncoder(sc[1])
         /\ c_dec = NewDecoder(sc[2])
         /\ \/ c_kind = "inter" /\ c_input \in {SampleInter(1), SampleInter(2)}
            \/ /\ c_kind = "channel" /\ sc[1] = dt_context
               /\ c_input \in { ch \in Channels : Len(ch.cubes) <= 1 }
    /\ c_ret = "none"
    /\ c_output = NoComponent
    /\ c_eof = "none yet"
    /\ PredictIdle /\ FrameIdle /\ OffsetIdle /\ PlaneIdle /\ IntraIdle /\ AduIdle /\ ModelIdle /\ PixelIdle /\ SimulIdle

TruncatedNext ==
    \/ CompressInterBlock
    \/ CompressChannel
    \/ CutStream
    \/ DecompressInterBlock
    \/ DecompressChannel

SpecTruncated == TruncatedInit /\ [][TruncatedNext]_vars

(***************************************************************************)
(* The delta-t residual offset on its own: two residuals of one            *)
(* delta_t_max are turned into symbols as compress_dt_residuals does and   *)
(* back as decompress_dt_residuals does.                                   *)
(***************************************************************************)
\* every delta_t_max up to SmallDeltaTMax is tried with all its residuals
SmallDeltaTMax == 5
\* larger ones (the tests' 100 and 102000, the i16 limit) with the residuals
\* next to the ends of their range and next to 0
LargeDeltaTMax == {100, I16_MAX, 102000}

\* the i16 residuals within [-delta_t_max, +delta_t_max] that are tried
OffsetResiduals(dtm) ==
    IF dtm <= SmallDeltaTMax THEN (0 - dtm) .. dtm
    ELSE { TResidLow(dtm), TResidLow(dtm) + 1, 0 - 1, 0, 1,
           TResidHigh(dtm) - 1, TResidHigh(dtm) }

\* Some(&dt_resid_offset_i16(*dt_residual, delta_t_max))
DtSymbolOf(dt_residual, delta_t_max) == dt_resid_offset_i16(dt_residual, delta_t_max)

OffsetEncode ==
    /\ o_pc = "start"
    /\ o_sym' = << DtSymbolOf(o_resid[1], o_dtm), DtSymbolOf(o_resid[2], o_dtm) >>
    /\ o_pc' = "coded"
    /\ UNCHANGED <<o_dtm, o_resid, o_back>>
    /\ UNCHANGED o_rest

OffsetDecode ==
    /\ o_pc = "coded"
    /\ o_back' = << SymDt([kind |-> "sym", sym |-> o_sym[1]], o_dtm),
                    SymDt([kind |-> "sym", sym |-> o_sym[2]], o_dtm) >>
    /\ o_pc' = "decoded"
    /\ UNCHANGED <<o_dtm, o_resid, o_sym>>
    /\ UNCHANGED o_rest

OffsetInit ==
    /\ o_pc = "start"
    /\ o_dtm \in (0 .. SmallDeltaTMax) \cup LargeDeltaTMax
    /\ o_resid \in OffsetResiduals(o_dtm) \X OffsetResiduals(o_dtm)
    /\ o_sym = <<0, 0>> /\ o_back = <<0, 0>>
    /\ CodecIdle /\ PredictIdle /\ FrameIdle /\ PlaneIdle /\ IntraIdle /\ AduIdle /\ ModelIdle /\ PixelIdle /\ SimulIdle

OffsetNext ==
    \/ OffsetEncode
    \/ OffsetDecode

SpecOffset == OffsetInit /\ [][OffsetNext]_vars

(***************************************************************************)
(* The residual predictor: predict_residual_from_prev.                     *)
(***************************************************************************)
RECURSIVE Pow2(_)
Pow2(k) == IF k <= 0 THEN 1 ELSE 2 * Pow2(k - 1)

\* number of bits of x without its leading zeros
RECURSIVE BitLen(_)
BitLen(x) == IF x <= 0 THEN 0 ELSE 1 + BitLen(x \div 2)

\* u32::leading_zeros
leading_zeros(x) == 32 - BitLen(x)

\* The model holds a u32 below 2^31 as itself; U32_TOP stands for every u32 of
\* 2^31 and more (the only use of such a value is a min with a dtm below 2^31).
U32_TOP == 2147483647

\* (x << k) on u32, 0 <= k <= 31: the bits shifted past bit 31 are lost
Shl32(x, k) ==
    LET l == x % 65536
        h == x \div 65536
        lo == IF k < 16 THEN (l % Pow2(16 - k)) * Pow2(k) ELSE 0
        hi == IF k < 16 THEN (h % Pow2(16 - k)) * Pow2(k) + (l \div Pow2(16 - k))
              ELSE (l % Pow2(32 - k)) * Pow2(k - 16)
    IN  IF hi >= 32768 THEN U32_TOP ELSE hi * 65536 + lo

\* (x >> k) on u32
Shr32(x, k) == x \div Pow2(k)

\* the last D residual of the first match arm: the literal 20_16
D_RESID_UP_LAST == 2016
\* the first D residual of the second match arm: -20_i16
D_RESID_DOWN_FIRST == 20

\* a variant that does not cap the shifted delta_t at dtm
PredictedDeltaTNoCap(previous, d_resid, dtm) ==
    IF d_resid >= 1 /\ d_resid <= D_RESID_UP_LAST
    THEN IF d_resid <= leading_zeros(previous.delta_t) \div 2
         THEN Shl32(previous.delta_t, d_resid)
         ELSE previous.delta_t
    ELSE previous.delta_t

\* a variant that shifts whenever the shift loses no bits
PredictedDeltaTWholeZeros(previous, d_resid, dtm) ==
    IF d_resid >= 1 /\ d_resid <= D_RESID_UP_LAST
    THEN IF d_resid <= leading_zeros(previous.delta_t)
         THEN Min(Shl32(previous.delta_t, d_resid), dtm)
         ELSE previous.delta_t
    ELSE previous.delta_t

\* a variant that applies the cap to previous.delta_t, before the shift
PredictedDeltaTCapFirst(previous, d_resid, dtm) ==
    IF d_resid >= 1 /\ d_resid <= D_RESID_UP_LAST
    THEN IF d_resid <= leading_zeros(previous.delta_t) \div 2
         THEN Shl32(Min(previous.delta_t, dtm), d_resid)
         ELSE previous.delta_t
    ELSE previous.delta_t

\* a variant whose first arm shifts by any amount below 32
PredictedDeltaTAnyShift(previous, d_resid, dtm) ==
    IF d_resid >= 1 /\ d_resid <= D_RESID_UP_LAST
    THEN IF d_resid <= 31
         THEN Min(Shl32(previous.delta_t, d_resid), dtm)
         ELSE previous.delta_t
    ELSE previous.delta_t

\* a variant whose second arm takes the smaller of the two values
PredictedDeltaTHalving(previous, d_resid, dtm) ==
    IF d_resid >= 1 /\ d_resid <= D_RESID_UP_LAST
    THEN IF d_resid <= leading_zeros(previous.delta_t) \div 2
         THEN Min(Shl32(previous.delta_t, d_resid), dtm)
         ELSE previous.delta_t
    ELSE IF d_resid >= 0 - D_RESID_DOWN_FIRST /\ d_resid <= 0 - 1
    THEN IF 0 - d_resid <= 32 - leading_zeros(previous.delta_t)
         THEN Min(Shr32(previous.delta_t, 0 - d_resid), previous.delta_t)
         ELSE previous.delta_t
    ELSE previous.delta_t

\* the value of the match expression: the delta_t the predictor expects of next
PredictedDeltaT(previous, d_resid, dtm) ==
    IF d_resid >= 1 /\ d_resid <= D_RESID_UP_LAST
    THEN IF d_resid <= leading_zeros(previous.delta_t) \div 2
         THEN Min(Shl32(previous.delta_t, d_resid), dtm)
         ELSE previous.delta_t
    ELSE IF d_resid >= 0 - D_RESID_DOWN_FIRST /\ d_resid <= 0 - 1
    THEN IF 0 - d_resid <= 32 - leading_zeros(previous.delta_t)
         THEN Max(Shr32(previous.delta_t, 0 - d_resid), previous.delta_t)
         ELSE previous.delta_t
    ELSE previous.delta_t

\* let d_resid = next.d as DResidual - previous.d as DResidual
DResidOf(previous, next) == AsI16(next.d - previous.d)

\* a variant that adds the expected delta_t instead of taking it off
predict_residual_from_prev_sum(previous, next, dtm) ==
    [d |-> DResidOf(previous, next),
     delta_t |-> next.delta_t + PredictedDeltaT(previous, DResidOf(previous, next), dtm)]

predict_residual_from_prev(previous, next, dtm) ==
    [d |-> DResidOf(previous, next),
     delta_t |-> next.delta_t - PredictedDeltaT(previous, DResidOf(previous, next), dtm)]

\* inputs: D values, the change of D, delta_t_max and delta_t values up to it
PrevD == {0, 5, 20, 107, 127, 255}
DChanges == {0 - 255, 0 - 107, 0 - 21, 0 - 20, 0 - 5, 0 - 1, 0, 1, 2, 8, 15, 16, 17, 20,
             21, 148, 255}
PredictDeltaTMax == {255, 10000, 32767, 32768, 102000, 1073741824}
PrevDeltaT == {0, 1, 3, 100, 255, 5000, 16383, 16384, 65535, 65536, 1073741823,
               1073741824}
NextDeltaT == {0, 1, 400, 65536}

Predict ==
    /\ p_pc = "in"
    /\ p_res' = predict_residual_from_prev(p_prev, p_next, p_dtm)
    /\ p_pc' = "out"
    /\ UNCHANGED <<p_prev, p_next, p_dtm>>
    /\ UNCHANGED p_rest

PredictInit ==
    /\ p_pc = "in"
    /\ p_dtm \in PredictDeltaTMax
    /\ \E d \in PrevD, c \in DChanges, t \in PrevDeltaT, u \in NextDeltaT \cup {p_dtm} :
         /\ d + c >= 0 /\ d + c <= 255
         /\ t <= p_dtm /\ u <= p_dtm
         /\ p_prev = [d |-> d, delta_t |-> t]
         /\ p_next = [d |-> d + c, delta_t |-> u]
    /\ p_res = [d |-> 0, delta_t |-> 0]
    /\ CodecIdle /\ FrameIdle /\ OffsetIdle /\ PlaneIdle /\ IntraIdle /\ AduIdle /\ ModelIdle /\ PixelIdle /\ SimulIdle

PredictNext == Predict

SpecPredict == PredictInit /\ [][PredictNext]_vars

(***************************************************************************)
(* The block aggregator: Block, Cube, Frame.                               *)
(* A [Option<EventCoordless>; 256] array is held as the function from its  *)
(* Some positions to their events (a position outside the domain is None), *)
(* a [usize; 256] index map as the function from its non-zero positions.   *)
(***************************************************************************)
\* coord.c = None
NoChannel == 0 - 1

\* [None; BLOCK_SIZE_AREA]
NoEvents == [i \in {} |-> [d |-> 0, delta_t |-> 0]]
\* [0; BLOCK_SIZE_AREA]
ZeroMap == [i \in {} |-> 0]
MapGet(block_idx_map, idx) == IF idx \in DOMAIN block_idx_map THEN block_idx_map[idx] ELSE 0

\* EventCoordless::from(event)
EventCoordlessFrom(event) == [d |-> event.d, delta_t |-> event.delta_t]

\* Block::new
BlockNew == [events |-> NoEvents, fill_count |-> 0]

\* Block::is_filled
is_filled(block) == block.fill_count = BLOCK_SIZE_AREA

\* a variant that stores the event before it reports the occupied slot
BlockSetEventOverwrite(block, event, idx) ==
    IF idx \in DOMAIN block.events
    THEN [ret |-> "AlreadyExists", idx |-> idx,
          block |-> [block EXCEPT !.events[idx] = EventCoordlessFrom(event)]]
    ELSE [ret |-> "Ok",
          block |-> [events |-> block.events @@ (idx :> EventCoordlessFrom(event)),
                     fill_count |-> (block.fill_count + 1) % 65536]]

\* a variant that keeps fill_count in a u8
BlockSetEventCountU8(block, event, idx) ==
    IF idx \in DOMAIN block.events
    THEN [ret |-> "AlreadyExists", idx |-> idx, block |-> block]
    ELSE [ret |-> "Ok",
          block |-> [events |-> block.events @@ (idx :> EventCoordlessFrom(event)),
                     fill_count |-> (block.fill_count + 1) % 256]]

\* Block::set_event: [ret, block]
BlockSetEvent(block, event, idx) ==
    IF idx \in DOMAIN block.events
    THEN [ret |-> "AlreadyExists", idx |-> idx, block |-> block]
    ELSE [ret |-> "Ok",
          block |-> [events |-> block.events @@ (idx :> EventCoordlessFrom(event)),
                     fill_count |-> (block.fill_count + 1) % 65536]]

\* a variant that pushes a block on every call
PushAlways(block_vec, block_idx_map, idx) == Append(block_vec, BlockNew)

\* a variant that puts the new block first
PushFrontIfNeeded(block_vec, block_idx_map, idx) ==
    IF MapGet(block_idx_map, idx) >= Len(block_vec)
    THEN <<BlockNew>> \o block_vec ELSE block_vec

\* block_vec after `if block_idx_map[idx] >= block_vec.len() { block_vec.push(..) }`
PushIfNeeded(block_vec, block_idx_map, idx) ==
    IF MapGet(block_idx_map, idx) >= Len(block_vec)
    THEN Append(block_vec, BlockNew) ELSE block_vec

\* a variant that leaves block_idx_map[idx] as it was
StoreInBlockKeepIndex(block_vec, block_idx_map, idx, r) ==
    IF r.ret = "Ok"
    THEN [ret |-> "Ok",
          block_vec |-> [block_vec EXCEPT ![MapGet(block_idx_map, idx) + 1] = r.block],
          block_idx_map |-> block_idx_map]
    ELSE [ret |-> r.ret, block_vec |-> block_vec, block_idx_map |-> block_idx_map]

\* a variant that puts the block it wrote to at the end of the vector
StoreInLastBlock(block_vec, block_idx_map, idx, r) ==
    IF r.ret = "Ok"
    THEN [ret |-> "Ok",
          block_vec |-> [block_vec EXCEPT ![Len(block_vec)] = r.block],
          block_idx_map |-> [i \in DOMAIN block_idx_map \cup {idx} |->
                               IF i = idx THEN MapGet(block_idx_map, idx) + 1
                               ELSE block_idx_map[i]]]
    ELSE [ret |-> r.ret, block_vec |-> block_vec, block_idx_map |-> block_idx_map]

\* the match on block_vec[block_idx_map[idx]].set_event(&event, idx)
StoreInBlock(block_vec, block_idx_map, idx, r) ==
    IF r.ret = "Ok"
    THEN [ret |-> "Ok",
          block_vec |-> [block_vec EXCEPT ![MapGet(block_idx_map, idx) + 1] = r.block],
          block_idx_map |-> [i \in DOMAIN block_idx_map \cup {idx} |->
                               IF i = idx THEN MapGet(block_idx_map, idx) + 1
                               ELSE block_idx_map[i]]]
    ELSE [ret |-> r.ret, block_vec |-> block_vec, block_idx_map |-> block_idx_map]

\* set_event_for_channel on the pushed vector: [ret, block_vec, block_idx_map]
SetEventInPushed(block_vec, block_idx_map, event, idx) ==
    IF MapGet(block_idx_map, idx) >= Len(block_vec)
    THEN [ret |-> "panic", block_vec |-> block_vec, block_idx_map |-> block_idx_map]
    ELSE StoreInBlock(block_vec, block_idx_map, idx,
                      BlockSetEvent(block_vec[MapGet(block_idx_map, idx) + 1], event, idx))

set_event_for_channel(block_vec, block_idx_map, event, idx) ==
    SetEventInPushed(PushIfNeeded(block_vec, block_idx_map, idx), block_idx_map, event, idx)

\* Cube::new
CubeNew(cube_idx_y, cube_idx_x) ==
    [blocks_r |-> <<BlockNew>>, blocks_g |-> <<BlockNew>>, blocks_b |-> <<BlockNew>>,
     cube_idx_y |-> cube_idx_y, cube_idx_x |-> cube_idx_x,
     block_idx_map_r |-> ZeroMap, block_idx_map_g |-> ZeroMap, block_idx_map_b |-> ZeroMap]

\* event.coord.c.unwrap_or(0)
ChannelOf(event) == IF event.coord.c = NoChannel THEN 0 ELSE event.coord.c

\* a variant whose arm for channel 1 hands over the B blocks
BlocksFieldArmSlip(event) ==
    IF ChannelOf(event) = 0 THEN "blocks_r" ELSE "blocks_b"

\* the fields of a cube that hold the channel an event goes to
BlocksField(event) ==
    IF ChannelOf(event) = 0 THEN "blocks_r"
    ELSE IF ChannelOf(event) = 1 THEN "blocks_g" ELSE "blocks_b"
MapField(event) ==
    IF ChannelOf(event) = 0 THEN "block_idx_map_r"
    ELSE IF ChannelOf(event) = 1 THEN "block_idx_map_g" ELSE "block_idx_map_b"

\* the cube with the channel's fields as set_event_for_channel left them
CubeWith(cube, event, r) ==
    [ret |-> r.ret,
     cube |-> [cube EXCEPT ![BlocksField(event)] = r.block_vec,
                           ![MapField(event)] = r.block_idx_map]]

\* Cube::set_event: [ret, cube]
CubeSetEvent(cube, event, block_idx) ==
    IF ChannelOf(event) \notin {0, 1, 2}
    THEN [ret |-> "panic", cube |-> cube]
    ELSE CubeWith(cube, event,
                  set_event_for_channel(cube[BlocksField(event)], cube[MapField(event)],
                                        event, block_idx))

\* Frame::new: width / 16.0_f64.ceil(), truncated by `as usize`
CubesAcross(width) == width \div BLOCK_SIZE
\* a variant whose loops are nested the other way: `for x { for y { push } }`
FrameNewColumnMajor(width, height, color) ==
    [cubes |-> [k \in 1 .. (CubesAcross(width) * CubesAcross(height)) |->
                  CubeNew((k - 1) % CubesAcross(height), (k - 1) \div CubesAcross(height))],
     cube_width |-> CubesAcross(width),
     cube_height |-> CubesAcross(height),
     color |-> color,
     index_hashmap |-> [c \in {} |-> [cube_idx |-> 0, block_idx |-> 0]]]

FrameNew(width, height, color) ==
    [cubes |-> [k \in 1 .. (CubesAcross(width) * CubesAcross(height)) |->
                  CubeNew((k - 1) \div CubesAcross(width), (k - 1) % CubesAcross(width))],
     cube_width |-> CubesAcross(width),
     cube_height |-> CubesAcross(height),
     color |-> color,
     index_hashmap |-> [c \in {} |-> [cube_idx |-> 0, block_idx |-> 0]]]

\* a variant that does not reduce x to the tile
event_coord_to_block_idx_whole_x(frame, event) ==
    [cube_idx |-> (event.coord.y \div BLOCK_SIZE) * frame.cube_width
                    + (event.coord.x \div BLOCK_SIZE),
     block_idx |-> (event.coord.y % BLOCK_SIZE) * BLOCK_SIZE + event.coord.x]

\* a variant that indexes the tile column by column
event_coord_to_block_idx_by_column(frame, event) ==
    [cube_idx |-> (event.coord.y \div BLOCK_SIZE) * frame.cube_width
                    + (event.coord.x \div BLOCK_SIZE),
     block_idx |-> (event.coord.x % BLOCK_SIZE) * BLOCK_SIZE
                     + (event.coord.y % BLOCK_SIZE)]

\* Frame::event_coord_to_block_idx
event_coord_to_block_idx(frame, event) ==
    [cube_idx |-> (event.coord.y \div BLOCK_SIZE) * frame.cube_width
                    + (event.coord.x \div BLOCK_SIZE),
     block_idx |-> (event.coord.y % BLOCK_SIZE) * BLOCK_SIZE
                     + (event.coord.x % BLOCK_SIZE)]

\* a variant whose cache holds the latest coordinate only
WithIndexOfOne(frame, event) ==
    IF event.coord \in DOMAIN frame.index_hashmap THEN frame
    ELSE [frame EXCEPT !.index_hashmap =
              (event.coord :> event_coord_to_block_idx(frame, event))]

\* the frame after `if !contains_key(..) { insert(..) }`
WithIndex(frame, event) ==
    IF event.coord \in DOMAIN frame.index_hashmap THEN frame
    ELSE [frame EXCEPT !.index_hashmap =
              @ @@ (event.coord :> event_coord_to_block_idx(frame, event))]

\* self.cubes[cube_idx].set_event(event, block_idx)?; Ok(cube_idx)
FrameWith(frame, index_map, r) ==
    [ret |-> r.ret,
     cube_idx |-> index_map.cube_idx,
     frame |-> [frame EXCEPT !.cubes[index_map.cube_idx + 1] = r.cube]]

SetEventAt(frame, event, index_map) ==
    IF index_map.cube_idx >= Len(frame.cubes)
    THEN [ret |-> "panic", cube_idx |-> index_map.cube_idx, frame |-> frame]
    ELSE FrameWith(frame, index_map,
                   CubeSetEvent(frame.cubes[index_map.cube_idx + 1], event,
                                index_map.block_idx))

AddEventIndexed(frame, event) == SetEventAt(frame, event, frame.index_hashmap[event.coord])

\* Frame::add_event: [ret, cube_idx, frame]
add_event(frame, event) == AddEventIndexed(WithIndex(frame, event), event)

\* inputs: frames of 2 x 2 and of 1 x 2 tiles; events inside the plane, beyond
\* its right edge (x = 40) and, for the second frame, in its missing column
MaxEvents == 3
FrameSizes == { <<32, 32, TRUE>>, <<16, 32, FALSE>> }
EventXs == {0, 27, 40}
EventYs == {13, 16}
EventCs == {NoChannel, 0, 1, 2, 3}
\* every coordinate with one event, and a second, different event at (27, 13)
Events ==
    { [coord |-> [x |-> x, y |-> y, c |-> c], d |-> 7, delta_t |-> 100] :
        x \in EventXs, y \in EventYs, c \in EventCs }
    \cup { [coord |-> [x |-> 27, y |-> 13, c |-> c], d |-> 9, delta_t |-> 255] :
             c \in {NoChannel, 2} }

NoCall == [event |-> [coord |-> [x |-> 0, y |-> 0, c |-> NoChannel], d |-> 0, delta_t |-> 0],
           ret |-> "none", cube_idx |-> 0]

\* frame.add_event(event): a panic unwinds, nothing is called after it
FrameAfter(r) == f_frame' = r.frame
AddEvent ==
    /\ f_last.ret # "panic"
    /\ f_count < MaxEvents
    /\ \E event \in Events :
         /\ FrameAfter(add_event(f_frame, event))
         /\ f_last' = [event |-> event,
                       ret |-> add_event(f_frame, event).ret,
                       cube_idx |-> add_event(f_frame, event).cube_idx]
    /\ f_count' = f_count + 1
    /\ UNCHANGED f_log
    /\ UNCHANGED f_rest

FrameInit ==
    /\ \E size \in FrameSizes : f_frame = FrameNew(size[1], size[2], size[3])
    /\ f_last = NoCall
    /\ f_count = 0
    /\ f_log = <<>>
    /\ CodecIdle /\ PredictIdle /\ OffsetIdle /\ PlaneIdle /\ IntraIdle /\ AduIdle /\ ModelIdle /\ PixelIdle /\ SimulIdle

FrameNext == AddEvent

SpecFrame == FrameInit /\ [][FrameNext]_vars

(***************************************************************************)
(* The frame of the doc examples and tests: Frame::new(640, 480, color),   *)
(* and a frame whose width is no multiple of 16; a few events each.        *)
(***************************************************************************)
MaxTilingEvents == 2
TilingSizes == { <<640, 480, TRUE>>, <<640, 480, FALSE>>, <<40, 20, TRUE>> }
\* the event of the add_event doc example, and events at the far corner
TilingEvents ==
    { [coord |-> [x |-> x, y |-> y, c |-> c], d |-> 7, delta_t |-> 100] :
        x \in {27, 639}, y \in {13, 479}, c \in {2, NoChannel} }

AddTilingEvent ==
    /\ f_last.ret # "panic"
    /\ f_count < MaxTilingEvents
    /\ \E event \in TilingEvents :
         /\ FrameAfter(add_event(f_frame, event))
         /\ f_last' = [event |-> event,
                       ret |-> add_event(f_frame, event).ret,
                       cube_idx |-> add_event(f_frame, event).cube_idx]
    /\ f_count' = f_count + 1
    /\ UNCHANGED f_log
    /\ UNCHANGED f_rest

TilingInit ==
    /\ \E size \in TilingSizes : f_frame = FrameNew(size[1], size[2], size[3])
    /\ f_last = NoCall
    /\ f_count = 0
    /\ f_log = <<>>
    /\ CodecIdle /\ PredictIdle /\ OffsetIdle /\ PlaneIdle /\ IntraIdle /\ AduIdle /\ ModelIdle /\ PixelIdle /\ SimulIdle

TilingNext == AddTilingEvent

SpecTiling == TilingInit /\ [][TilingNext]_vars

(***************************************************************************)
(* Runs of add_event with a history of the accepted events: several events *)
(* with different payloads at the same coordinate, in channels R (c = None *)
(* and Some(0)) and G, in a 40 x 40 frame, whose third column of tiles is  *)
(* half a tile wide; c = Some(3) is the call that panics.                  *)
(***************************************************************************)
MaxLogged == 3
LoggedSize == <<40, 40, TRUE>>
LoggedEvents ==
    { [coord |-> [x |-> 5, y |-> 3, c |-> c], d |-> d, delta_t |-> 10 * d] :
        c \in {NoChannel, 0, 1}, d \in {1, 2, 3} }
    \cup { [coord |-> [x |-> x, y |-> 3, c |-> c], d |-> 1, delta_t |-> 10] :
              x \in {21, 35}, c \in {NoChannel, 1} }
    \cup { [coord |-> [x |-> 5, y |-> 3, c |-> 3], d |-> 1, delta_t |-> 10] }

AddLoggedEvent ==
    /\ f_last.ret # "panic"
    /\ f_count < MaxLogged
    /\ \E event \in LoggedEvents :
         /\ FrameAfter(add_event(f_frame, event))
         /\ f_last' = [event |-> event,
                       ret |-> add_event(f_frame, event).ret,
                       cube_idx |-> add_event(f_frame, event).cube_idx]
         /\ f_log' = IF add_event(f_frame, event).ret = "Ok"
                     THEN Append(f_log, event) ELSE f_log
    /\ f_count' = f_count + 1
    /\ UNCHANGED f_rest

HistoryInit ==
    /\ f_frame = FrameNew(LoggedSize[1], LoggedSize[2], LoggedSize[3])
    /\ f_last = NoCall
    /\ f_count = 0
    /\ f_log = <<>>
    /\ CodecIdle /\ PredictIdle /\ OffsetIdle /\ PlaneIdle /\ IntraIdle /\ AduIdle /\ ModelIdle /\ PixelIdle /\ SimulIdle

HistoryNext == AddLoggedEvent

SpecHistory == HistoryInit /\ [][HistoryNext]_vars

(***************************************************************************)
(* A tile that fills up: a 16 x 16 frame receives an event at each of its  *)
(* 256 coordinates in row-major order, with repeats at the first and the   *)
(* last coordinate in between and after the first block is full.           *)
(***************************************************************************)
MaxFill == 259
MaxDeep == 2
FillSize == <<16, 16, FALSE>>
SweepEvent(n) ==
    [coord |-> [x |-> n % 16, y |-> n \div 16, c |-> NoChannel],
     d |-> n % 256, delta_t |-> n]
\* the coordinates seen so far are the first NextSweep of the sweep
NextSweep == Cardinality(DOMAIN f_frame.index_hashmap)
FillEvents ==
    { SweepEvent(n) : n \in {NextSweep} \cap (0 .. 255) }
    \cup { SweepEvent(n) : n \in { m \in {0, 255} :
                /\ SweepEvent(m).coord \in DOMAIN f_frame.index_hashmap
                /\ MapGet(f_frame.cubes[1].block_idx_map_r, m) <= MaxDeep } }

AddFillEvent ==
    /\ f_last.ret # "panic"
    /\ f_count < MaxFill
    /\ \E event \in FillEvents :
         /\ FrameAfter(add_event(f_frame, event))
         /\ f_last' = [event |-> event,
                       ret |-> add_event(f_frame, event).ret,
                       cube_idx |-> add_event(f_frame, event).cube_idx]
    /\ f_count' = f_count + 1
    /\ UNCHANGED f_log
    /\ UNCHANGED f_rest

FillInit ==
    /\ f_frame = FrameNew(FillSize[1], FillSize[2], FillSize[3])
    /\ f_last = NoCall
    /\ f_count = 0
    /\ f_log = <<>>
    /\ CodecIdle /\ PredictIdle /\ OffsetIdle /\ PlaneIdle /\ IntraIdle /\ AduIdle /\ ModelIdle /\ PixelIdle /\ SimulIdle

FillNext == AddFillEvent

SpecFill == FillInit /\ [][FillNext]_vars

(***************************************************************************)
(* Direct calls on the R channel of one cube: Block::set_event on any of   *)
(* its blocks, which leaves block_idx_map behind, and                      *)
(* set_event_for_channel, which then finds the slot it selects occupied.   *)
(***************************************************************************)
MaxSlotCalls == 4
SlotIdxs == {0, 255}
SlotEvents ==
    { [coord |-> [x |-> 0, y |-> 0, c |-> NoChannel], d |-> d, delta_t |-> 10 * d] :
        d \in {1, 2} }

\* cube.blocks_r[k].set_event(&event, idx)
SetEventInBlock ==
    /\ f_count < MaxSlotCalls
    /\ \E k \in 1 .. Len(f_frame.cubes[1].blocks_r), event \in SlotEvents,
          idx \in SlotIdxs :
         /\ f_frame' = [f_frame EXCEPT !.cubes[1].blocks_r[k] =
                            BlockSetEvent(@, event, idx).block]
         /\ f_last' = [call |-> "Block::set_event", event |-> event, idx |-> idx,
                       block |-> k,
                       result |-> BlockSetEvent(f_frame.cubes[1].blocks_r[k], event, idx),
                       ret |-> BlockSetEvent(f_frame.cubes[1].blocks_r[k], event, idx).ret]
    /\ f_count' = f_count + 1
    /\ UNCHANGED f_log
    /\ UNCHANGED f_rest

\* set_event_for_channel(&mut cube.blocks_r, &mut cube.block_idx_map_r, event, idx)
SetEventForChannel ==
    /\ f_count < MaxSlotCalls
    /\ \E event \in SlotEvents, idx \in SlotIdxs :
         /\ f_frame' = [f_frame EXCEPT
                !.cubes[1].blocks_r =
                    set_event_for_channel(f_frame.cubes[1].blocks_r,
                        f_frame.cubes[1].block_idx_map_r, event, idx).block_vec,
                !.cubes[1].block_idx_map_r =
                    set_event_for_channel(f_frame.cubes[1].blocks_r,
                        f_frame.cubes[1].block_idx_map_r, event, idx).block_idx_map]
         /\ f_last' = [call |-> "set_event_for_channel", event |-> event, idx |-> idx,
                       block |-> MapGet(f_frame.cubes[1].block_idx_map_r, idx) + 1,
                       result |-> [ret |-> "none"],
                       ret |-> set_event_for_channel(f_frame.cubes[1].blocks_r,
                                   f_frame.cubes[1].block_idx_map_r, event, idx).ret]
    /\ f_count' = f_count + 1
    /\ UNCHANGED f_log
    /\ UNCHANGED f_rest

SlotInit ==
    /\ f_frame = FrameNew(16, 16, FALSE)
    /\ f_last = NoCall
    /\ f_count = 0
    /\ f_log = <<>>
    /\ CodecIdle /\ PredictIdle /\ OffsetIdle /\ PlaneIdle /\ IntraIdle /\ AduIdle /\ ModelIdle /\ PixelIdle /\ SimulIdle

SlotNext == SetEventInBlock \/ SetEventForChannel

SpecSlot == SlotInit /\ [][SlotNext]_vars

(***************************************************************************)
(* The plane size: PlaneSize::new of adder-codec-core and of adder-codec-rs *)
(* called with widths and heights (u16) and channel counts (u8) that are   *)
(* zero, small and the largest of the type; the caller keeps the plane an   *)
(* Ok carries and its previous one otherwise.                              *)
(***************************************************************************)
PlaneWidths == {0, 1, 2, 640, 65535}
PlaneHeights == {0, 1, 480, 65535}
PlaneChannels == {0, 1, 3, 255}

\* a variant that refuses only the plane with all three fields 0
PlaneSizeNewAllZero(width, height, channels) ==
    IF width = 0 /\ height = 0 /\ channels = 0
    THEN [ret |-> "Err",
          err |-> [InvalidPlane |-> [width |-> width, height |-> height,
                                     channels |-> channels]]]
    ELSE [ret |-> "Ok",
          plane |-> [width |-> width, height |-> height, channels |-> channels]]

\* adder_codec_core::PlaneSize::new
PlaneSizeNew(width, height, channels) ==
    IF width = 0 \/ height = 0 \/ channels = 0
    THEN [ret |-> "Err",
          err |-> [InvalidPlane |-> [width |-> width, height |-> height,
                                     channels |-> channels]]]
    ELSE [ret |-> "Ok",
          plane |-> [width |-> width, height |-> height, channels |-> channels]]

\* adder_codec_rs::PlaneSize::new
PlaneSizeNewRs(width, height, channels) ==
    IF width = 0 \/ height = 0 \/ channels = 0
    THEN [ret |-> "Err",
          err |-> "PlaneSize must have positive width, height, and channels"]
    ELSE [ret |-> "Ok",
          plane |-> [width |-> width, height |-> height, channels |-> channels]]

\* the caller's plane after `if let Ok(p) = r { plane = p }`
Held(r) == ps_plane' = IF r.ret = "Ok" THEN r.plane ELSE ps_plane

NewCorePlane ==
    /\ \E width \in PlaneWidths, height \in PlaneHeights, channels \in PlaneChannels :
         /\ ps_args' = <<width, height, channels>>
         /\ ps_ret' = PlaneSizeNew(width, height, channels)
         /\ Held(PlaneSizeNew(width, height, channels))
    /\ ps_crate' = "core"
    /\ UNCHANGED ps_rest

NewRsPlane ==
    /\ \E width \in PlaneWidths, height \in PlaneHeights, channels \in PlaneChannels :
         /\ ps_args' = <<width, height, channels>>
         /\ ps_ret' = PlaneSizeNewRs(width, height, channels)
         /\ Held(PlaneSizeNewRs(width, height, channels))
    /\ ps_crate' = "rs"
    /\ UNCHANGED ps_rest

PlaneInit ==
    /\ ps_crate = "none" /\ ps_args = <<1, 1, 1>> /\ ps_ret = [ret |-> "none"]
    /\ ps_plane = PlaneSizeDefault
    /\ CodecIdle /\ PredictIdle /\ FrameIdle /\ OffsetIdle /\ IntraIdle /\ AduIdle /\ ModelIdle /\ PixelIdle /\ SimulIdle

PlaneNext == NewCorePlane \/ NewRsPlane

SpecPlane == PlaneInit /\ [][PlaneNext]_vars

(***************************************************************************)
(* Frames for planes whose sides are no multiples of 16, and events inside *)
(* the plane only: the plane is kept beside the frame built for it.        *)
(***************************************************************************)
MaxPlaneEvents == 3
PartialPlanes == { <<40, 20, 3>>, <<40, 40, 1>>, <<24, 33, 3>>, <<10, 10, 1>>,
                   <<32, 32, 1>> }
PlaneEvents(plane) ==
    { [coord |-> [x |-> x, y |-> y, c |-> NoChannel], d |-> 7, delta_t |-> 100] :
        x \in {x \in {5, 21, 35} : x < plane.width},
        y \in {y \in {3, 19, 32} : y < plane.height} }

AddPlaneEvent ==
    /\ f_last.ret # "panic"
    /\ f_count < MaxPlaneEvents
    /\ \E event \in PlaneEvents(ps_plane) :
         /\ FrameAfter(add_event(f_frame, event))
         /\ f_last' = [event |-> event,
                       ret |-> add_event(f_frame, event).ret,
                       cube_idx |-> add_event(f_frame, event).cube_idx]
         /\ f_log' = IF add_event(f_frame, event).ret = "Ok"
                     THEN Append(f_log, event) ELSE f_log
    /\ f_count' = f_count + 1
    /\ UNCHANGED f_rest

PartialInit ==
    /\ \E size \in PartialPlanes :
         /\ ps_args = size
         /\ ps_ret = PlaneSizeNew(size[1], size[2], size[3])
         /\ ps_plane = PlaneSizeNew(size[1], size[2], size[3]).plane
         /\ f_frame = FrameNew(size[1], size[2], size[3] = 3)
    /\ ps_crate = "core"
    /\ f_last = NoCall
    /\ f_count = 0
    /\ f_log = <<>>
    /\ CodecIdle /\ PredictIdle /\ OffsetIdle /\ IntraIdle /\ AduIdle /\ ModelIdle /\ PixelIdle /\ SimulIdle

PartialNext == AddPlaneEvent

SpecPartial == PartialInit /\ [][PartialNext]_vars

(***************************************************************************)
(* Block::get_intra_residual_transforms: the residual loop, the forward    *)
(* DCT and the quantization of the coefficients. The function keeps its    *)
(* arrays in locals; ir_d, ir_dt, ir_coef and ir_arr hold them as they are *)
(* when it returns.                                                        *)
(***************************************************************************)
\* `x as i16` for a float x: the cast saturates
SatI16(x) == Max(I16_MIN, Min(I16_MAX, x))
\* i16 / i16 of Rust: the quotient is truncated towards zero
TruncDiv(a, b) == IF a >= 0 THEN a \div b ELSE 0 - ((0 - a) \div b)

\* the occupied positions of a block, ascending
RECURSIVE SortedPositions(_)
SortedPositions(set) ==
    IF set = {} THEN <<>>
    ELSE <<CHOOSE i \in set : \A j \in set : i <= j>>
           \o SortedPositions(set \ {CHOOSE i \in set : \A j \in set : i <= j})

\* the two arrays with one entry written
WriteResidual(r, i, d, delta_t) ==
    [d |-> [r.d EXCEPT ![i] = d], dt |-> [r.dt EXCEPT ![i] = delta_t]]

\* `if !init { .. }` at the first occupied position
HeadWritten(r, k, idx, prev) ==
    IF k = 1 THEN WriteResidual(r, idx, prev.d, prev.delta_t) ELSE r

\* the inner loop: `self.events.iter().skip(idx + 1).enumerate()` counts
\* next_idx from 0 at position idx + 1; it stops at the first event it meets
NextWritten(r, idx, found, prev, next, dtm) ==
    WriteResidual(r, found - (idx + 1),
                  predict_residual_from_prev(prev, next, dtm).d,
                  predict_residual_from_prev(prev, next, dtm).delta_t)

\* the outer loop, from the k-th occupied position on
RECURSIVE ResidualLoop(_, _, _, _, _)
ResidualLoop(k, occ, events, r, dtm) ==
    IF k > Len(occ) THEN r
    ELSE IF k = Len(occ)
    THEN HeadWritten(r, k, occ[k], events[occ[k]])
    ELSE ResidualLoop(k + 1, occ, events,
                      NextWritten(HeadWritten(r, k, occ[k], events[occ[k]]),
                                  occ[k], occ[k + 1], events[occ[k]],
                                  events[occ[k + 1]], dtm),
                      dtm)

IntraResiduals(events, dtm) ==
    ResidualLoop(1, SortedPositions(DOMAIN events), events,
                 [d |-> [i \in Positions |-> D_ENCODE_NO_EVENT],
                  dt |-> [i \in Positions |-> 0]],
                 dtm)

\* the quantizer schedules for a bit depth of 12, for the first values of qparam
dc_q(qparam, delta_q, bit_depth) == <<4, 12, 18, 25>>[qparam + 1]
ac_q(qparam, delta_q, bit_depth) == <<4, 13, 19, 27>>[qparam + 1]

\* the 16 x 16 DCT-II of dt_residuals, cast to i16: the DC coefficient is the
\* sum of the array; the AC coefficients of an array that is not all zero are
\* left open (ac stands for each of them)
RECURSIVE SumOver(_, _)
SumOver(f, set) ==
    IF set = {} THEN 0
    ELSE f[CHOOSE i \in set : TRUE] + SumOver(f, set \ {CHOOSE i \in set : TRUE})
NonZero(dt) == {i \in Positions : dt[i] # 0}
Coefficients(dc, ac) == [i \in Positions |-> IF i = 0 THEN dc ELSE ac]
ForwardDct(dt, ac) ==
    Coefficients(SatI16(SumOver(dt, NonZero(dt))), IF NonZero(dt) = {} THEN 0 ELSE ac)

\* the quantization as the source has it: `let ac_quant = 1;` shadows the
\* schedule's value
Quantized(coef, qparam) ==
    [i \in Positions |->
        IF i = 0 THEN TruncDiv(coef[0], dc_q(qparam, 0, 12))
        ELSE TruncDiv(coef[i], 1)]

\* inputs
MaxIntraEvents == 3
IntraPositions == {0, 1, 3, 5, 255}
IntraPayloads == { [d |-> 3, delta_t |-> 100], [d |-> 7, delta_t |-> 10] }
IntraBlocks ==
    UNION { [occ -> IntraPayloads] :
              occ \in {s \in SUBSET IntraPositions : Cardinality(s) <= MaxIntraEvents} }
IntraDeltaTMax == {255, 102000}
QParams == {0, 1, 3}
AcChoices == {0, 3, 0 - 100, 1000}

GetIntraResidualTransforms ==
    /\ ir_pc = "start"
    /\ ir_d' = IntraResiduals(ir_events, ir_dtm).d
    /\ ir_dt' = IntraResiduals(ir_events, ir_dtm).dt
    /\ \E ac \in AcChoices : ir_coef' = ForwardDct(ir_dt', ac)
    /\ ir_arr' = Quantized(ir_coef', ir_qparam)
    /\ ir_pc' = "done"
    /\ UNCHANGED <<ir_events, ir_dtm, ir_qparam>>
    /\ UNCHANGED ir_rest

IntraInit ==
    /\ ir_pc = "start"
    /\ ir_events \in IntraBlocks
    /\ ir_dtm \in IntraDeltaTMax
    /\ ir_qparam \in QParams
    /\ ir_d = <<>> /\ ir_dt = <<>> /\ ir_coef = <<>> /\ ir_arr = <<>>
    /\ CodecIdle /\ PredictIdle /\ FrameIdle /\ OffsetIdle /\ PlaneIdle /\ AduIdle /\ ModelIdle /\ PixelIdle /\ SimulIdle

IntraNext == GetIntraResidualTransforms

SpecIntra == IntraInit /\ [][IntraNext]_vars

(***************************************************************************)
(* Adu::new and Adu::add_cube. A Vec<AduCube> that earlier add_cube calls  *)
(* filled is kept as the number of those cubes (all MkCube(1, 0)) and the  *)
(* sequence of the cubes pushed since.                                     *)
(***************************************************************************)
U16_MAX == 65535
VecNew == [before |-> 0, pushed |-> <<>>]
VecLen(v) == v.before + Len(v.pushed)
VecPush(v, cube) == [v EXCEPT !.pushed = Append(@, cube)]

AduChannelNew == [num_cubes |-> 0, cubes |-> VecNew]
\* Adu::new
AduNew ==
    [head_event_t |-> 0, cubes_r |-> AduChannelNew, cubes_g |-> AduChannelNew,
     cubes_b |-> AduChannelNew]

AduChannelTypes == {"R", "G", "B"}
ChannelField(channel) ==
    IF channel = "R" THEN "cubes_r" ELSE IF channel = "G" THEN "cubes_g" ELSE "cubes_b"

\* `num_cubes += 1` on a u16: at 65535 a build with overflow checks panics, one
\* without wraps to 0
CounterOverflows(adu, channel) == adu[ChannelField(channel)].num_cubes = U16_MAX
Pushed(adu, cube, channel) ==
    [adu EXCEPT ![ChannelField(channel)].cubes = VecPush(@, cube)]
Counted(adu, channel) ==
    [adu EXCEPT ![ChannelField(channel)].num_cubes = (@ + 1) % (U16_MAX + 1)]

\* Adu::add_cube: [ret, adu]
add_cube(adu, cube, channel, build) ==
    IF CounterOverflows(adu, channel) /\ build = "debug"
    THEN [ret |-> "panic", adu |-> Pushed(adu, cube, channel)]
    ELSE [ret |-> "Ok", adu |-> Counted(Pushed(adu, cube, channel), channel)]

\* inputs
MaxAddCube == 3
AduCubes == { MkCube(k, 0) : k \in 1 .. 2 }
\* how many add_cube(MkCube(1, 0), R) calls came before the first state
EarlierCubes == {0, U16_MAX - 1}
AfterEarlier(n) ==
    [AduNew EXCEPT !.cubes_r = [num_cubes |-> n, cubes |-> [before |-> n, pushed |-> <<>>]]]

AddCube ==
    /\ ad_last.ret # "panic"
    /\ ad_calls < MaxAddCube
    /\ \E cube \in AduCubes, channel \in AduChannelTypes :
         /\ ad_adu' = add_cube(ad_adu, cube, channel, ad_build).adu
         /\ ad_last' = [channel |-> channel, cube |-> cube,
                        ret |-> add_cube(ad_adu, cube, channel, ad_build).ret]
    /\ ad_calls' = ad_calls + 1
    /\ UNCHANGED ad_build
    /\ UNCHANGED ad_rest

AduInit ==
    /\ ad_build \in {"debug", "release"}
    /\ \E n \in EarlierCubes : ad_adu = AfterEarlier(n)
    /\ ad_last = [ret |-> "none"]
    /\ ad_calls = 0
    /\ CodecIdle /\ PredictIdle /\ FrameIdle /\ OffsetIdle /\ PlaneIdle /\ IntraIdle /\ ModelIdle /\ PixelIdle /\ SimulIdle

AduNext == AddCube

SpecAdu == AduInit /\ [][AduNext]_vars

(***************************************************************************)
(* The context-switching Fenwick frequency model (spec.md 4.2): one        *)
(* binary-indexed tree per context; tree[i] holds the sum of the counts of *)
(* the LowBit(i) symbols that end at symbol i - 1.                         *)
(***************************************************************************)
\* the alphabets and the count width, scaled down
MaxSymbols == 3
MaxCount == 3
MaxObserved == 6
FmAlphabetSize(ctx) == IF ctx = eof_context THEN 2 ELSE MaxSymbols

\* i & -i
RECURSIVE LowBit(_)
LowBit(i) == IF i % 2 = 1 THEN 1 ELSE 2 * LowBit(i \div 2)

\* update(symbol, increment), from tree index i on
RECURSIVE FenwickAdd(_, _, _)
FenwickAdd(tree, i, increment) ==
    IF i > Len(tree) THEN tree
    ELSE FenwickAdd([tree EXCEPT ![i] = @ + increment], i + LowBit(i), increment)
FenwickUpdate(tree, symbol, increment) == FenwickAdd(tree, symbol + 1, increment)

\* the sum of the counts of the first i symbols
RECURSIVE FenwickPrefix(_, _)
FenwickPrefix(tree, i) ==
    IF i = 0 THEN 0 ELSE tree[i] + FenwickPrefix(tree, i - LowBit(i))
\* cumulative(symbol): the counts of the symbols before it
cumulative(tree, symbol) == FenwickPrefix(tree, symbol)
total(tree) == FenwickPrefix(tree, Len(tree))
CountOf(tree, symbol) == FenwickPrefix(tree, symbol + 1) - FenwickPrefix(tree, symbol)

\* the tree of the given counts (counts[symbol + 1])
RECURSIVE TreeFrom(_, _, _)
TreeFrom(counts, k, tree) ==
    IF k > Len(counts) THEN tree
    ELSE TreeFrom(counts, k + 1, FenwickUpdate(tree, k - 1, counts[k]))
TreeOf(counts) == TreeFrom(counts, 1, [i \in 1 .. Len(counts) |-> 0])

\* initial counts: 1 per symbol
FenwickNew(n) == TreeOf([k \in 1 .. n |-> 1])

\* a variant that halves rounding down
RescaledDown(tree) ==
    TreeOf([k \in 1 .. Len(tree) |-> CountOf(tree, k - 1) \div 2])
\* halve all counts, rounding up
Rescaled(tree) ==
    TreeOf([k \in 1 .. Len(tree) |-> (CountOf(tree, k - 1) + 1) \div 2])

\* the bump after an encode or decode: rescale first if the count would pass
\* the width
Observed(tree, symbol) ==
    IF CountOf(tree, symbol) + 1 > MaxCount
    THEN FenwickUpdate(Rescaled(tree), symbol, 1)
    ELSE FenwickUpdate(tree, symbol, 1)

\* model.set_context(context)
SetContext ==
    /\ \E ctx \in ContextIds : ctx # fm_ctx /\ fm_ctx' = ctx
    /\ UNCHANGED <<fm_trees, fm_seen>>
    /\ UNCHANGED fm_rest

\* a symbol is encoded or decoded under the current context
Observe ==
    /\ fm_seen < MaxObserved
    /\ \E symbol \in 0 .. (FmAlphabetSize(fm_ctx) - 1) :
         fm_trees' = [fm_trees EXCEPT ![fm_ctx] = Observed(@, symbol)]
    /\ fm_seen' = fm_seen + 1
    /\ UNCHANGED fm_ctx
    /\ UNCHANGED fm_rest

ModelInit ==
    /\ fm_ctx = u8_general_context
    /\ fm_trees = [ctx \in ContextIds |-> FenwickNew(FmAlphabetSize(ctx))]
    /\ fm_seen = 0
    /\ CodecIdle /\ PredictIdle /\ FrameIdle /\ OffsetIdle /\ PlaneIdle /\ IntraIdle /\ PixelIdle /\ SimulIdle
    /\ AduIdle

ModelNext == SetContext \/ Observe

SpecModel == ModelInit /\ [][ModelNext]_vars

(***************************************************************************)
(* EventPixel::add_intensity, one loop iteration per step. The f32 values  *)
(* (integration, delta_t, the tracker's fields) are kept in units of       *)
(* 1 / Unit, a grid on which every quotient of the explored inputs is      *)
(* exact (QuotientsExact); the rounding of f32 to 24 bits is left out.     *)
(***************************************************************************)
Unit == 65280
\* `n as f32`
AsF32(n) == n * Unit
\* `x as u32` for a float x >= 0: the fraction is dropped
AsU32(x) == x \div Unit
\* (x / y) * z for whole numbers y and z, computed as (x * z) / y
Scaled(x, y, z) == IF y = 0 THEN 0 ELSE (x * AsU32(z)) \div AsU32(y)
ScaledExactly(x, y, z) == y = 0 \/ (x * AsU32(z)) % AsU32(y) = 0

\* D_SHIFT[d] as f32
D_SHIFT(d) == AsF32(Pow2(d))
U8_MAX == 255

has_empty_event(pixel, delta_t_max_f32) == pixel.delta_t >= delta_t_max_f32
has_full_event(pixel, intensity_left) ==
    pixel.integration + intensity_left >= D_SHIFT(pixel.d)

\* consume_to_delta_t_max: [pixel, tracker]
ConsumedTracker(tracker, delta_t_to_add) ==
    [tracker EXCEPT
       !.delta_t_to_add = delta_t_to_add,
       !.intensity_left = @ - Scaled(delta_t_to_add, tracker.delta_t_original,
                                     tracker.intensity_original),
       !.delta_t_left = @ - delta_t_to_add]
consume_to_delta_t_max(pixel, tracker, delta_t_max_f32) ==
    [pixel |-> [pixel EXCEPT !.delta_t = delta_t_max_f32],
     tracker |-> ConsumedTracker(tracker, delta_t_max_f32 - pixel.delta_t)]

\* the end of fire_event: the count, and the reset of the integration state
FireReset(pixel) ==
    [pixel EXCEPT !.fire_count = Min(@ + 1, U8_MAX), !.integration = 0, !.delta_t = 0]

\* fire_event(true, ..): [failed, pixel, event]; a failed assertion unwinds
FireEmpty(pixel, delta_t_max, delta_t_max_f32) ==
    IF pixel.delta_t # delta_t_max_f32
    THEN [failed |-> TRUE, pixel |-> pixel, event |-> pixel.event_to_send]
    ELSE [failed |-> FALSE,
          pixel |-> FireReset([pixel EXCEPT !.event_to_send =
                                   [d |-> 0, delta_t |-> delta_t_max]]),
          event |-> [d |-> 0, delta_t |-> delta_t_max]]

\* event_to_send of fire_event(false, ..): delta_t is `self.delta_t as u32`
FiredEvent(pixel) == [d |-> pixel.d, delta_t |-> AsU32(pixel.delta_t)]

WithLastEvent(pixel, first_iter) ==
    IF first_iter
    THEN [pixel EXCEPT !.last_event =
              [pixel.event_to_send EXCEPT !.d = IF pixel.d > 128 THEN 0 ELSE @]]
    ELSE pixel

\* fire_event(false, ..); the debug_assert! is taken as an assertion
FireFull(pixel, delta_t_max_f32, first_iter) ==
    IF pixel.delta_t <= 0 \/ pixel.delta_t > delta_t_max_f32
    THEN [failed |-> TRUE,
          pixel |-> [pixel EXCEPT !.event_to_send = FiredEvent(pixel)],
          event |-> FiredEvent(pixel)]
    ELSE [failed |-> FALSE,
          pixel |-> FireReset(WithLastEvent(
                        [pixel EXCEPT !.event_to_send = FiredEvent(pixel)],
                        first_iter)),
          event |-> FiredEvent(pixel)]

\* what one loop iteration leaves: the pixel, the tracker, the fired event
AfterFire(r, is_empty, fired_at, tracker) ==
    /\ px_pixel' = r.pixel
    /\ px_tracker' = tracker
    /\ px_fired' = [empty |-> is_empty, delta_t |-> fired_at, event |-> r.event,
                    failed |-> r.failed]
    /\ px_sender' = IF r.failed THEN px_sender ELSE Append(px_sender, r.event)
    /\ px_pc' = IF r.failed THEN "panic" ELSE "loop"
    /\ px_first' = FALSE
AfterConsume(r) ==
    /\ px_pixel' = r.pixel
    /\ px_tracker' = r.tracker
    /\ UNCHANGED <<px_fired, px_sender, px_pc, px_first>>

DeltaTMaxF32 == AsF32(px_tracker.delta_t_max)

\* first arm: the pixel has reached delta_t_max
EmptyEvent ==
    /\ px_pc = "loop"
    /\ has_empty_event(px_pixel, DeltaTMaxF32)
    /\ AfterFire(FireEmpty(px_pixel, px_tracker.delta_t_max, DeltaTMaxF32), "empty",
                 px_pixel.delta_t, px_tracker)
    /\ UNCHANGED px_calls
    /\ UNCHANGED px_rest

\* second arm: the intensity left reaches the threshold of D
DeltaTToFull(pixel, tracker) ==
    Scaled(D_SHIFT(pixel.d) - pixel.integration, tracker.intensity_original,
           tracker.delta_t_original)
FullTracker(pixel, tracker) ==
    [tracker EXCEPT
       !.delta_t_to_add = DeltaTToFull(pixel, tracker),
       !.delta_t_left = @ - DeltaTToFull(pixel, tracker),
       !.intensity_left = @ - (D_SHIFT(pixel.d) - pixel.integration)]
FullEvent ==
    /\ px_pc = "loop"
    /\ ~has_empty_event(px_pixel, DeltaTMaxF32)
    /\ has_full_event(px_pixel, px_tracker.intensity_left)
    /\ IF px_pixel.delta_t + DeltaTToFull(px_pixel, px_tracker) > DeltaTMaxF32
       THEN AfterConsume(consume_to_delta_t_max(
                px_pixel,
                [px_tracker EXCEPT !.delta_t_to_add = DeltaTToFull(px_pixel, px_tracker)],
                DeltaTMaxF32))
       ELSE AfterFire(FireFull([px_pixel EXCEPT
                                  !.delta_t = @ + DeltaTToFull(px_pixel, px_tracker)],
                               DeltaTMaxF32, px_first),
                      "full", px_pixel.delta_t + DeltaTToFull(px_pixel, px_tracker),
                      FullTracker(px_pixel, px_tracker))
    /\ UNCHANGED px_calls
    /\ UNCHANGED px_rest

\* third arm: integrate what is left of the intensity and of the time
Integrate ==
    /\ px_pc = "loop"
    /\ ~has_empty_event(px_pixel, DeltaTMaxF32)
    /\ ~has_full_event(px_pixel, px_tracker.intensity_left)
    /\ \/ px_tracker.intensity_original = 0 /\ px_tracker.delta_t_left > 0
       \/ px_tracker.intensity_left > 0
    /\ IF px_pixel.delta_t + px_tracker.delta_t_left > DeltaTMaxF32
       THEN AfterConsume(consume_to_delta_t_max(
                px_pixel,
                [px_tracker EXCEPT !.delta_t_to_add = px_tracker.delta_t_left],
                DeltaTMaxF32))
       ELSE /\ px_pixel' = [px_pixel EXCEPT
                              !.delta_t = @ + px_tracker.delta_t_left,
                              !.integration = @ + px_tracker.intensity_left]
            /\ px_tracker' = [px_tracker EXCEPT
                                !.delta_t_to_add = px_tracker.delta_t_left,
                                !.delta_t_left = 0,
                                !.intensity_left = 0]
            /\ px_first' = FALSE
            /\ UNCHANGED <<px_fired, px_sender, px_pc>>
    /\ UNCHANGED px_calls
    /\ UNCHANGED px_rest

\* no arm matches: the loop ends; the two assertions after it
Magnitude32(x) == IF x >= 0 THEN x ELSE 0 - x
ReturnFromAdd ==
    /\ px_pc = "loop"
    /\ ~has_empty_event(px_pixel, DeltaTMaxF32)
    /\ ~has_full_event(px_pixel, px_tracker.intensity_left)
    /\ ~(px_tracker.intensity_original = 0 /\ px_tracker.delta_t_left > 0)
    /\ ~(px_tracker.intensity_left > 0)
    /\ px_pc' = IF px_tracker.delta_t_left >= 0 /\ AsU32(px_tracker.delta_t_left) = 0
                   /\ Magnitude32(px_tracker.intensity_left) * 500 < Unit
                THEN "idle" ELSE "panic"
    /\ UNCHANGED <<px_pixel, px_tracker, px_first, px_sender, px_fired, px_calls>>
    /\ UNCHANGED px_rest

\* inputs: D, delta_t_max, the intensity of a frame and its time span
MaxPixelCalls == 3
D_START == 7
PixelDeltaTMax == {2, 4}
Intensities == {0, 64, 128, 255}
TimeSpans == {1, 2}

\* pixel.add_intensity(&mut tracker, &mut sender, true)
AddIntensity ==
    /\ px_pc = "idle"
    /\ px_calls < MaxPixelCalls
    /\ \E intensity \in Intensities, span \in TimeSpans :
         px_tracker' = [intensity_original |-> AsF32(intensity),
                        intensity_left |-> AsF32(intensity),
                        delta_t_original |-> AsF32(span),
                        delta_t_left |-> AsF32(span),
                        delta_t_to_add |-> 0,
                        delta_t_max |-> px_tracker.delta_t_max]
    /\ px_pc' = "loop"
    /\ px_first' = TRUE
    /\ px_calls' = px_calls + 1
    /\ UNCHANGED <<px_pixel, px_sender, px_fired>>
    /\ UNCHANGED px_rest

\* EventPixel::new
PixelInit ==
    /\ px_pc = "idle"
    /\ px_pixel = [integration |-> 0, delta_t |-> 0, d |-> D_START, fire_count |-> 0,
                   event_to_send |-> [d |-> 0, delta_t |-> 0],
                   last_event |-> [d |-> 0, delta_t |-> 0]]
    /\ \E dtm \in PixelDeltaTMax :
         px_tracker = [intensity_original |-> 0, intensity_left |-> 0,
                       delta_t_original |-> 0, delta_t_left |-> 0,
                       delta_t_to_add |-> 0, delta_t_max |-> dtm]
    /\ px_first = TRUE
    /\ px_sender = <<>>
    /\ px_fired = [empty |-> "none"]
    /\ px_calls = 0
    /\ CodecIdle /\ PredictIdle /\ FrameIdle /\ OffsetIdle /\ PlaneIdle /\ IntraIdle /\ SimulIdle
    /\ AduIdle /\ ModelIdle

\* the grid is fine enough: no quotient of a reachable step is rounded
QuotientsExact ==
    (px_pc = "loop" /\ ~has_empty_event(px_pixel, DeltaTMaxF32)) =>
      /\ has_full_event(px_pixel, px_tracker.intensity_left) =>
            ScaledExactly(D_SHIFT(px_pixel.d) - px_pixel.integration,
                          px_tracker.intensity_original, px_tracker.delta_t_original)
      /\ ScaledExactly(DeltaTMaxF32 - px_pixel.delta_t, px_tracker.delta_t_original,
                       px_tracker.intensity_original)

PixelNext == AddIntensity \/ EmptyEvent \/ FullEvent \/ Integrate \/ ReturnFromAdd

SpecPixel == PixelInit /\ [][PixelNext]_vars

(***************************************************************************)
(* SimulProcessor: run() feeds the batches of the source into a channel,   *)
(* the framing thread spawned by new() receives them and writes frames.    *)
(* The source, the framer and the channel (std::sync::mpsc) are outside    *)
(* the sources: a consume(1) call returns a batch, "End of video" or       *)
(* another error; ingest_events_events returns a bool and                  *)
(* write_multi_frame_bytes a number of frames; the channel is a queue.     *)
(* A batch is named by its number in the order of production.              *)
(***************************************************************************)
MaxBatches == 3
MaxFramesPerWrite == 3
FrameMaxima == {0, 1, 3}

\* Receiver::recv on a channel that holds a message: the oldest one
recv_newest(queue) ==
    [batch |-> queue[Len(queue)], rest |-> SubSeq(queue, 1, Len(queue) - 1)]
recv(queue) == [batch |-> Head(queue), rest |-> Tail(queue)]

\* the receiver lives as long as the framing thread's closure runs
ReceiverAlive == sm_framer = "recv"

\* one iteration of the loop of run()
RunIteration ==
    /\ sm_run = "loop"
    /\ \/ /\ sm_produced < MaxBatches          \* Ok(events)
          /\ sm_answer' = "ok"
          /\ sm_produced' = sm_produced + 1
          /\ IF ReceiverAlive
             THEN /\ sm_queue' = Append(sm_queue, sm_produced + 1)
                  /\ sm_sent' = sm_sent + 1
                  /\ UNCHANGED <<sm_run, sm_left>>
             ELSE /\ sm_run' = "left"           \* send returned Err(_)
                  /\ sm_left' = "send"
                  /\ UNCHANGED <<sm_queue, sm_sent>>
          /\ UNCHANGED sm_spin
       \/ /\ sm_answer' = "end"                 \* Err("End of video")
          /\ sm_run' = "left"
          /\ sm_left' = "end"
          /\ UNCHANGED <<sm_produced, sm_queue, sm_sent, sm_spin>>
       \/ /\ sm_answer' = "other"               \* Err(_)
          /\ sm_spin' = 1 - sm_spin
          /\ UNCHANGED <<sm_produced, sm_queue, sm_sent, sm_run, sm_left>>
    /\ UNCHANGED <<sm_tx, sm_framer, sm_why, sm_received, sm_frames>>
    /\ UNCHANGED sm_rest

\* after the loop: end_write_stream, Ok(())
RunReturn ==
    /\ sm_run = "left"
    /\ sm_run' = "returned"
    /\ UNCHANGED <<sm_left, sm_answer, sm_spin, sm_produced, sm_sent, sm_queue, sm_tx,
                   sm_framer, sm_why, sm_received, sm_frames>>
    /\ UNCHANGED sm_rest

\* main drops the SimulProcessor, and with it events_tx
DropProcessor ==
    /\ sm_run = "returned"
    /\ sm_tx
    /\ sm_tx' = FALSE
    /\ UNCHANGED <<sm_run, sm_left, sm_answer, sm_spin, sm_produced, sm_sent, sm_queue,
                   sm_framer, sm_why, sm_received, sm_frames>>
    /\ UNCHANGED sm_rest

\* frame_count += frames_returned; the frames are in the output
Written(frames, frames_returned) ==
    [frames EXCEPT !.frame_count = @ + frames_returned, !.written = @ + frames_returned]
FrameLimitReached(frames) ==
    frames.frame_count >= frames.frame_max /\ frames.frame_max > 0

\* the Ok arm of the framing thread: one received batch. A panic of a
\* rayon::spawn closure without a panic handler aborts the process.
Framed(frames) ==
    /\ sm_frames' = frames
    /\ sm_framer' = IF FrameLimitReached(frames) THEN "stopped" ELSE "recv"
    /\ sm_why' = IF FrameLimitReached(frames) THEN "limit" ELSE sm_why
    /\ UNCHANGED sm_run
FramerReceive ==
    /\ sm_run # "aborted"
    /\ sm_framer = "recv"
    /\ sm_queue # <<>>
    /\ sm_queue' = recv(sm_queue).rest
    /\ sm_received' = Append(sm_received, recv(sm_queue).batch)
    /\ \E filled \in BOOLEAN, frames_returned \in 0 .. MaxFramesPerWrite :
         IF ~filled
         THEN Framed(sm_frames)
         ELSE IF frames_returned = 0
         THEN /\ sm_framer' = "panicked"
              /\ sm_run' = "aborted"
              /\ UNCHANGED <<sm_frames, sm_why>>
         ELSE Framed(Written(sm_frames, frames_returned))
    /\ UNCHANGED <<sm_left, sm_answer, sm_spin, sm_produced, sm_sent, sm_tx>>
    /\ UNCHANGED sm_rest

\* the Err arm: recv fails on an empty channel whose sender is gone
FramerClosed ==
    /\ sm_run # "aborted"
    /\ sm_framer = "recv"
    /\ sm_queue = <<>>
    /\ ~sm_tx
    /\ sm_framer' = "stopped"
    /\ sm_why' = "closed"
    /\ UNCHANGED <<sm_run, sm_left, sm_answer, sm_spin, sm_produced, sm_sent, sm_queue,
                   sm_tx, sm_received, sm_frames>>
    /\ UNCHANGED sm_rest

\* SimulProcessor::new(source, ref_time, tps, output_path, frame_max)
SimulInit ==
    /\ sm_run = "loop"
    /\ sm_left = "none"
    /\ sm_answer = "none"
    /\ sm_spin = 0
    /\ sm_produced = 0
    /\ sm_sent = 0
    /\ sm_queue = <<>>
    /\ sm_tx = TRUE
    /\ sm_framer = "recv"
    /\ sm_why = "none"
    /\ sm_received = <<>>
    /\ \E frame_max \in FrameMaxima :
         sm_frames = [frame_count |-> 1, written |-> 0, frame_max |-> frame_max]
    /\ CodecIdle /\ PredictIdle /\ FrameIdle /\ OffsetIdle /\ PlaneIdle /\ IntraIdle
    /\ AduIdle /\ ModelIdle /\ PixelIdle

SimulNext == RunIteration \/ RunReturn \/ DropProcessor \/ FramerReceive \/ FramerClosed

SpecSimul == SimulInit /\ [][SimulNext]_vars

\* both threads keep running while they have a step to take
SimulFairness ==
    /\ WF_vars(RunIteration)
    /\ WF_vars(RunReturn)
    /\ WF_vars(DropProcessor)
    /\ WF_vars(FramerReceive)
    /\ WF_vars(FramerClosed)
SpecSimulFair == SimulInit /\ [][SimulNext]_vars /\ SimulFairness

(***************************************************************************)
(* Claims about the inter block.                                           *)
(***************************************************************************)
InterDecoded == c_kind = "inter" /\ c_pc \in {"decoded", "checked"}

\* the part of the stream the component wrote (the driver's eof record excluded)
ComponentStream == SelectSeq(c_enc.out, LAMBDA r : r.tag # "eof")

\* C1 as stated: compressing any inter block with in-range residuals and
\* decompressing the bytes gives back shift_loss_param, d_residuals and
\* t_residuals equal to the input's at every one of the 256 positions.
C1_RoundTripAllPositions ==
    /\ (c_kind = "inter" => c_pc # "panic")
    /\ (InterDecoded =>
          /\ c_output.shift_loss_param = c_input.shift_loss_param
          /\ c_output.d_residuals = c_input.d_residuals
          /\ c_output.t_residuals = c_input.t_residuals)

\* C1 amended: the round trip returns shift_loss_param and every d_residual, the
\* t_residual of every position that holds an event, and t_residual 0 at every
\* position whose D residual is D_ENCODE_NO_EVENT.
C1_RoundTripEventPositions ==
    /\ (c_kind = "inter" => c_pc # "panic")
    /\ (InterDecoded =>
          /\ c_output.shift_loss_param = c_input.shift_loss_param
          /\ c_output.d_residuals = c_input.d_residuals
          /\ \A i \in Positions :
               c_output.t_residuals[i] =
                 IF c_input.d_residuals[i] # D_ENCODE_NO_EVENT
                 THEN c_input.t_residuals[i] ELSE 0)

C1_Witness ==
    /\ InterDecoded
    /\ \E i \in Positions : /\ c_input.d_residuals[i] # D_ENCODE_NO_EVENT
                            /\ c_input.t_residuals[i] = TResidLow(c_dtm)
    /\ \E i \in Positions : /\ c_input.d_residuals[i] = D_ENCODE_NO_EVENT
                            /\ c_input.t_residuals[i] # 0

\* C3: the dt_context symbols of a compressed inter block are one per event
\* position, in ascending position order, none for a no-event position; their
\* number is the number of event positions and at most 256.
DtSymbols == SelectSeq(c_enc.out, LAMBDA r : r.ctx = dt_context)

C3_DeltaTElision ==
    (c_kind = "inter" /\ c_pc # "start") =>
        /\ Len(DtSymbols) = Cardinality(EventPositions(c_input))
        /\ Len(DtSymbols) <= BLOCK_SIZE_AREA
        /\ \A k \in 1 .. Len(DtSymbols) :
             /\ DtSymbols[k].pos \in EventPositions(c_input)
             /\ DtSymbols[k].tag = "inter.t_residuals"
             /\ k > 1 => DtSymbols[k - 1].pos < DtSymbols[k].pos

C3_Witness ==
    /\ c_kind = "inter" /\ c_pc = "compressed"
    /\ Cardinality(EventPositions(c_input)) = 1
    /\ Len(DtSymbols) = 1

\* C4: decompress reads under the contexts compress wrote under, symbol for
\* symbol: one u8_general, 256 d_context, then one dt_context per event position,
\* whatever contexts the two models were in before the block.
InterContexts(block) ==
    [k \in 1 .. (1 + BLOCK_SIZE_AREA + Cardinality(EventPositions(block))) |->
        IF k = 1 THEN u8_general_context
        ELSE IF k <= 1 + BLOCK_SIZE_AREA THEN d_context ELSE dt_context]

C4_ContextLockStep ==
    (c_kind = "inter" /\ c_pc = "decoded") =>
        /\ c_dec.trace = [k \in 1 .. Len(ComponentStream) |-> ComponentStream[k].ctx]
        /\ c_dec.trace = InterContexts(c_input)

C4_Witness ==
    /\ c_kind = "inter" /\ c_pc = "decoded"
    /\ Len(c_dec.trace) > 1 + BLOCK_SIZE_AREA
    /\ Len(c_dec.trace) < 2 * BLOCK_SIZE_AREA
    /\ c_input.d_residuals[0] = D_ENCODE_NO_EVENT

(***************************************************************************)
(* Claims about the channel, the ADU and the end of the stream.            *)
(***************************************************************************)
\* what decompress makes of the delta-t residuals of a block: the residual of
\* an event position, 0 at a position without an event
ElidedT(d_residuals, t_residuals) ==
    [i \in Positions |->
        IF d_residuals[i] # D_ENCODE_NO_EVENT THEN t_residuals[i] ELSE 0]
ElidedInter(b) == [b EXCEPT !.t_residuals = ElidedT(b.d_residuals, b.t_residuals)]
ElidedIntra(b) == [b EXCEPT !.dt_residuals = ElidedT(b.d_residuals, b.dt_residuals)]
ElidedCube(c) ==
    [c EXCEPT !.intra_block = ElidedIntra(@),
              !.inter_blocks = [j \in 1 .. Len(@) |-> ElidedInter(@[j])]]
ElidedChannel(ch) ==
    [ch EXCEPT !.cubes = [k \in 1 .. Len(@) |-> ElidedCube(@[k])]]

ChannelConsistent == c_kind = "channel" /\ c_input.num_cubes = Len(c_input.cubes)
ChannelDecoded == ChannelConsistent /\ c_pc \in {"decoded", "checked"}

\* C2 as stated: a channel whose num_cubes is its number of cubes comes back
\* from compress + decompress with the same num_cubes, that many cubes, and
\* every cube's fields and blocks equal to the input's.
C2_ChannelRoundTripExact ==
    /\ (ChannelConsistent => c_pc # "panic")
    /\ (ChannelDecoded =>
          /\ c_output.num_cubes = c_input.num_cubes
          /\ Len(c_output.cubes) = c_output.num_cubes
          /\ c_output.cubes = c_input.cubes)

\* C2 amended: the same, except that the delta-t residuals of positions whose
\* D residual is D_ENCODE_NO_EVENT come back as 0.
C2_ChannelRoundTripElided ==
    /\ (ChannelConsistent => c_pc # "panic")
    /\ (ChannelDecoded =>
          /\ c_output.num_cubes = c_input.num_cubes
          /\ Len(c_output.cubes) = c_output.num_cubes
          /\ c_output.cubes = ElidedChannel(c_input).cubes)

C2_Witness ==
    /\ ChannelDecoded
    /\ Len(c_input.cubes) = 2
    /\ c_input.cubes[1].idx_y # c_input.cubes[2].idx_y
    /\ c_input.cubes[2].num_inter_blocks = 1
    /\ ElidedCube(c_input.cubes[2]) # c_input.cubes[2]

\* the stream Adu::compress is to write: head_event_t, channel R, channel G,
\* channel B, then the eof marker
AduStream(adu, r, dtm) ==
    EncEncodeNone(
        EncSetContext(
            ChannelCompress(adu.cubes_b,
                ChannelCompress(adu.cubes_g,
                    ChannelCompress(adu.cubes_r,
                        TryEncodeBytes(WithContext(r, u8_general_context),
                                       U32ToBeBytes(adu.head_event_t), dtm,
                                       "adu.head_event_t"),
                        dtm),
                    dtm),
                dtm).enc,
            eof_context),
        "eof").out

Tags(stream) == [k \in 1 .. Len(stream) |-> stream[k].tag]
\* the stream positions that start a cube
CubeStarts(stream) == {k \in 1 .. Len(stream) : stream[k].tag = "cube.idx_y"}

\* C5: one ADU is written as head_event_t, channel R, channel G, channel B, eof,
\* nothing after the eof; in a channel the two num_cubes bytes come first and
\* the cubes follow in index order, no field twice.
C5_AduWriteOrder ==
    /\ (c_kind = "adu" /\ c_pc # "start") =>
          /\ c_pc # "panic"
          /\ c_enc.out = AduStream(c_input, [enc |-> NewEncoder(c_enc.ctx), ret |-> "Ok"],
                                   c_dtm)
    /\ (c_kind = "channel" /\ c_pc = "compressed") =>
          /\ Len(c_enc.out) >= 2
          /\ \A k \in 1 .. Len(c_enc.out) :
               (c_enc.out[k].tag = "channel.num_cubes") <=> (k <= 2)
          /\ Cardinality(CubeStarts(c_enc.out)) = Len(c_input.cubes)
          /\ \A k \in CubeStarts(c_enc.out) :
               LET n == Cardinality({j \in CubeStarts(c_enc.out) : j <= k}) IN
               /\ c_enc.out[k].sym = c_input.cubes[n].idx_y
               /\ c_enc.out[k + 1].sym = c_input.cubes[n].idx_x

\* C6: after decompress has consumed every symbol of the component, one more
\* decode under the eof context gives None; the eof marker is written by the
\* caller, never by the compress of an inter block or a channel.
ConsumedComponent == c_dec.pos > Len(ComponentStream)

C6_WitnessInter ==
    /\ c_pc = "checked" /\ ConsumedComponent /\ c_eof = "none"
    /\ c_kind = "inter"

ExpectedDeltaT(previous, d_resid, dtm) ==
    IF 1 <= d_resid /\ d_resid <= 20
    THEN IF d_resid <= leading_zeros(previous.delta_t) \div 2
         THEN Min(previous.delta_t * Pow2(d_resid), dtm)
         ELSE previous.delta_t
    ELSE IF 0 - 20 <= d_resid /\ d_resid <= 0 - 1
    THEN IF 0 - d_resid <= 32 - leading_zeros(previous.delta_t)
         THEN Max(previous.delta_t \div Pow2(0 - d_resid), previous.delta_t)
         ELSE previous.delta_t
    ELSE previous.delta_t

\* C8: for delta_t values up to delta_t_max, the delta_t the predictor expects
\* is determined by previous, the D residual and delta_t_max, and previous.d
\* plus the D residual, the expected delta_t plus the delta_t residual, are
\* next.d and next.delta_t.
C8_Reconstruction ==
    (p_pc = "out") =>
        /\ p_prev.d + p_res.d = p_next.d
        /\ ExpectedDeltaT(p_prev, p_res.d, p_dtm) + p_res.delta_t = p_next.delta_t

C8_Witness ==
    /\ p_pc = "out"
    /\ p_res.d = 0 - 5 /\ p_prev.delta_t = 5000 /\ p_res.delta_t # 0
    /\ p_next.delta_t = p_dtm

\* C9: when D rises by 1 to 20, the expected delta_t is
\* min(previous.delta_t * 2^d_resid, delta_t_max) if d_resid is at most half the
\* leading zeros of previous.delta_t, the product fitting 32 bits, and
\* previous.delta_t otherwise; {5, 100} -> {7, 400} under 10000 gives (2, 0).
C9_SmallRise ==
    (p_pc = "out" /\ 1 <= p_res.d /\ p_res.d <= 20) =>
        /\ (p_res.d <= leading_zeros(p_prev.delta_t) \div 2) =>
              /\ p_res.d <= leading_zeros(p_prev.delta_t)
              /\ p_next.delta_t - p_res.delta_t
                    = Min(p_prev.delta_t * Pow2(p_res.d), p_dtm)
        /\ (p_res.d > leading_zeros(p_prev.delta_t) \div 2) =>
              p_next.delta_t - p_res.delta_t = p_prev.delta_t
        /\ (/\ p_prev = [d |-> 5, delta_t |-> 100]
            /\ p_next = [d |-> 7, delta_t |-> 400]
            /\ p_dtm = 10000) => p_res = [d |-> 2, delta_t |-> 0]

C9_Witness ==
    /\ p_pc = "out"
    /\ p_prev = [d |-> 5, delta_t |-> 100]
    /\ p_next = [d |-> 7, delta_t |-> 400]
    /\ p_dtm = 10000
    /\ p_res = [d |-> 2, delta_t |-> 0]

(***************************************************************************)
(* Claims about the frame.                                                 *)
(***************************************************************************)
\* the blocks and the index map of the channel the last event went to, in the
\* cube add_event returned
LastCube == f_frame.cubes[f_last.cube_idx + 1]
LastBlocks == LastCube[BlocksField(f_last.event)]
LastDepth(pos) == MapGet(LastCube[MapField(f_last.event)], pos)

\* C10: for an event add_event accepted, the cube index returned is
\* (y / 16) * cube_width + (x / 16), and the event sits at position
\* (y % 16) * 16 + (x % 16) of the block of that cube it was put in.
C10_EventToTile ==
    (f_last.ret = "Ok") =>
        LET x == f_last.event.coord.x
            y == f_last.event.coord.y
            pos == (y % 16) * 16 + (x % 16)
        IN  /\ f_last.cube_idx = (y \div 16) * f_frame.cube_width + (x \div 16)
            /\ f_last.cube_idx < Len(f_frame.cubes)
            /\ LastDepth(pos) >= 1 /\ LastDepth(pos) <= Len(LastBlocks)
            /\ pos \in DOMAIN LastBlocks[LastDepth(pos)].events
            /\ LastBlocks[LastDepth(pos)].events[pos] = EventCoordlessFrom(f_last.event)

C10_Witness ==
    /\ f_last.ret = "Ok"
    /\ f_last.event.coord = [x |-> 27, y |-> 13, c |-> 2]
    /\ f_frame.cube_width = 2 /\ f_last.cube_idx = 1
    /\ LastDepth(13 * 16 + 11) = 2

\* the doc example: Frame::new(640, 480, _) and the event at (27, 13, Some(2))
DocExample ==
    /\ f_frame.cube_width = 40 /\ f_frame.cube_height = 30
    /\ f_last.ret # "none"
    /\ f_last.event.coord = [x |-> 27, y |-> 13, c |-> 2]

\* the positions of the cube add_event returned that hold an event, per channel
Occupied(blocks) == UNION { DOMAIN blocks[k].events : k \in 1 .. Len(blocks) }

\* C11 as stated: in a 640 x 480 frame the event at (27, 13, Some(2)) goes to
\* cube 1, position 13 * 16 + 27 = 235, channel B.
C11_TilingAt235 ==
    DocExample =>
        /\ f_last.ret = "Ok" /\ f_last.cube_idx = 1
        /\ f_frame.index_hashmap[f_last.event.coord].block_idx = 235
        /\ 235 \in Occupied(LastCube.blocks_b)

\* C11 amended: the event goes to cube 1, channel B, position
\* 13 * 16 + (27 % 16) = 219; position 235 of that channel stays empty.
C11_TilingAt219 ==
    DocExample =>
        /\ f_last.ret = "Ok" /\ f_last.cube_idx = 1
        /\ f_frame.index_hashmap[f_last.event.coord]
             = [cube_idx |-> 1, block_idx |-> 219]
        /\ LastDepth(219) >= 1
        /\ LastCube.blocks_b[LastDepth(219)].events[219]
             = EventCoordlessFrom(f_last.event)
        /\ 235 \notin Occupied(LastCube.blocks_b)

C11_Witness ==
    /\ DocExample /\ f_count = 1 /\ f_frame.color
    /\ LastCube.blocks_b[1].events[219] = [d |-> 7, delta_t |-> 100]

\* the two fields of a cube that belong to channel c (None counts as 0)
FieldsOfChannel(c) ==
    IF c \in {NoChannel, 0} THEN {"blocks_r", "block_idx_map_r"}
    ELSE IF c = 1 THEN {"blocks_g", "block_idx_map_g"}
    ELSE {"blocks_b", "block_idx_map_b"}
CubeFields == {"blocks_r", "blocks_g", "blocks_b", "cube_idx_y", "cube_idx_x",
               "block_idx_map_r", "block_idx_map_g", "block_idx_map_b"}

\* C12: an add_event that is accepted changes the blocks and the block_idx_map
\* of one channel of one cube (R for c = None or Some(0), G for Some(1), B for
\* Some(2)) and nothing else of any cube.
RoutedStep ==
    (f_last'.ret = "Ok" /\ f_count' = f_count + 1) =>
        /\ Len(f_frame'.cubes) = Len(f_frame.cubes)
        /\ \A j \in 1 .. Len(f_frame.cubes) :
             /\ (j # f_last'.cube_idx + 1) => f_frame'.cubes[j] = f_frame.cubes[j]
             /\ (j = f_last'.cube_idx + 1) =>
                   \A field \in CubeFields :
                       (f_frame'.cubes[j][field] # f_frame.cubes[j][field])
                         <=> field \in FieldsOfChannel(f_last'.event.coord.c)
C12_ChannelRouting == [][RoutedStep]_vars

C12_Witness ==
    /\ f_last.ret = "Ok" /\ f_last.event.coord.c = 1 /\ f_count = 3
    /\ Occupied(LastCube.blocks_g) # {} /\ Occupied(LastCube.blocks_r) # {}
    /\ Occupied(LastCube.blocks_b) # {}

\* the accepted events that went to position pos of channel ch (0, 1, 2) of
\* the cube with index cube_idx, in the order of their calls
LogChannel(event) == IF event.coord.c = NoChannel THEN 0 ELSE event.coord.c
LogCube(event) ==
    (event.coord.y \div 16) * f_frame.cube_width + (event.coord.x \div 16)
LogPos(event) == (event.coord.y % 16) * 16 + (event.coord.x % 16)
ArrivalsAt(cube_idx, ch, pos) ==
    SelectSeq(f_log, LAMBDA e : /\ LogCube(e) = cube_idx /\ LogChannel(e) = ch
                                /\ LogPos(e) = pos)
BlocksOf(cube, ch) ==
    IF ch = 0 THEN cube.blocks_r ELSE IF ch = 1 THEN cube.blocks_g ELSE cube.blocks_b
MapOf(cube, ch) ==
    IF ch = 0 THEN cube.block_idx_map_r
    ELSE IF ch = 1 THEN cube.block_idx_map_g ELSE cube.block_idx_map_b

\* C13: for every cube, channel and position, with N the number of events
\* accepted at that position: block_idx_map[pos] = N, the slot pos is occupied
\* in the first N blocks and empty in the later ones, and block k (from 0)
\* holds the (k+1)-th event that arrived at the position.
DepthAt(cube_idx, ch, pos) ==
    /\ MapGet(MapOf(f_frame.cubes[cube_idx + 1], ch), pos)
         = Len(ArrivalsAt(cube_idx, ch, pos))
    /\ Len(BlocksOf(f_frame.cubes[cube_idx + 1], ch))
         >= Len(ArrivalsAt(cube_idx, ch, pos))
    /\ \A k \in 1 .. Len(BlocksOf(f_frame.cubes[cube_idx + 1], ch)) :
         IF k <= Len(ArrivalsAt(cube_idx, ch, pos))
         THEN /\ pos \in DOMAIN BlocksOf(f_frame.cubes[cube_idx + 1], ch)[k].events
              /\ BlocksOf(f_frame.cubes[cube_idx + 1], ch)[k].events[pos]
                   = [d |-> ArrivalsAt(cube_idx, ch, pos)[k].d,
                      delta_t |-> ArrivalsAt(cube_idx, ch, pos)[k].delta_t]
         ELSE pos \notin DOMAIN BlocksOf(f_frame.cubes[cube_idx + 1], ch)[k].events
\* every position outside Touched has no arrival, map entry 0 and no occupied
\* slot, so DepthAt holds there by the definition of Touched
Touched(cube_idx, ch) ==
    DOMAIN MapOf(f_frame.cubes[cube_idx + 1], ch)
      \cup Occupied(BlocksOf(f_frame.cubes[cube_idx + 1], ch))
      \cup { LogPos(f_log[i]) : i \in 1 .. Len(f_log) }
C13_PerPositionDepth ==
    \A cube_idx \in 0 .. Len(f_frame.cubes) - 1 : \A ch \in {0, 1, 2} :
        \A pos \in Touched(cube_idx, ch) : DepthAt(cube_idx, ch, pos)

\* three events with three payloads at (5, 3) of channel R, the middle one
\* with c = None: three blocks deep, in the order of arrival
C13_Witness ==
    /\ Len(f_log) = 3
    /\ f_log[1].coord = [x |-> 5, y |-> 3, c |-> 0] /\ f_log[1].d = 2
    /\ f_log[2].coord = [x |-> 5, y |-> 3, c |-> NoChannel] /\ f_log[2].d = 3
    /\ f_log[3].coord = [x |-> 5, y |-> 3, c |-> 0] /\ f_log[3].d = 1
    /\ Len(f_frame.cubes[1].blocks_r) = 3
    /\ f_frame.cubes[1].blocks_r[1].events[53] = [d |-> 2, delta_t |-> 20]
    /\ f_frame.cubes[1].blocks_r[3].events[53] = [d |-> 1, delta_t |-> 10]
    /\ f_frame.cubes[1].block_idx_map_r[53] = 3

\* C14: in every block of every channel of every cube, fill_count equals the
\* number of occupied slots, and it is at most 256.
BlockCounted(block) ==
    /\ block.fill_count = Cardinality(DOMAIN block.events)
    /\ block.fill_count <= 256
C14_FillCount ==
    \A j \in 1 .. Len(f_frame.cubes) : \A ch \in {0, 1, 2} :
        \A k \in 1 .. Len(BlocksOf(f_frame.cubes[j], ch)) :
            BlockCounted(BlocksOf(f_frame.cubes[j], ch)[k])

\* the first block is full and the events go on in the second one
C14_Witness ==
    /\ f_last.ret = "Ok"
    /\ Len(f_frame.cubes[1].blocks_r) >= 2
    /\ f_frame.cubes[1].blocks_r[1].fill_count = 256
    /\ DOMAIN f_frame.cubes[1].blocks_r[1].events = Positions
    /\ is_filled(f_frame.cubes[1].blocks_r[1])
    /\ f_frame.cubes[1].blocks_r[2].fill_count = 2

\* the sum of fill_count over a vector of blocks
RECURSIVE FillSum(_)
FillSum(blocks) ==
    IF blocks = <<>> THEN 0 ELSE Head(blocks).fill_count + FillSum(Tail(blocks))
\* the accepted events of channel ch whose coordinates lie in the 16 x 16
\* region of the cube in row cube_idx_y and column cube_idx_x
EventsInRegion(cube, ch) ==
    SelectSeq(f_log, LAMBDA e : /\ LogChannel(e) = ch
                                /\ e.coord.x \div 16 = cube.cube_idx_x
                                /\ e.coord.y \div 16 = cube.cube_idx_y)

\* C15: after accepted add_event calls, for every cube and channel the sum of
\* fill_count over the channel's blocks equals the number of accepted events
\* of that channel whose coordinates fall in the cube's region.
C15_EventConservation ==
    (f_last.ret # "panic") =>
        \A j \in 1 .. Len(f_frame.cubes) : \A ch \in {0, 1, 2} :
            FillSum(BlocksOf(f_frame.cubes[j], ch))
              = Len(EventsInRegion(f_frame.cubes[j], ch))

\* C15, counted by the index add_event computes instead of by the region: the
\* sum of fill_count equals the number of accepted events whose
\* (y / 16) * cube_width + (x / 16) is the cube's index.
C15_ConservedByCubeIndex ==
    (f_last.ret # "panic") =>
        \A j \in 1 .. Len(f_frame.cubes) : \A ch \in {0, 1, 2} :
            FillSum(BlocksOf(f_frame.cubes[j], ch))
              = Len(SelectSeq(f_log, LAMBDA e : LogChannel(e) = ch /\ LogCube(e) = j - 1))

\* an accepted event of the plane, at x = 35 of 40, kept by the cube of row 1
C15_Misplaced ==
    /\ f_last.ret = "Ok" /\ f_last.event.coord.x = 35 /\ f_last.event.coord.y = 3
    /\ f_last.cube_idx = 2
    /\ f_frame.cubes[3].cube_idx_y = 1 /\ f_frame.cubes[3].cube_idx_x = 0

\* C16: across every add_event, a coordinate that is in index_hashmap stays
\* there with the same (cube_idx, block_idx); every entry equals
\* event_coord_to_block_idx of its coordinate; and an accepted add_event at a
\* coordinate already cached returns the cached cube index.
CacheStep ==
    /\ \A coord \in DOMAIN f_frame.index_hashmap :
         /\ coord \in DOMAIN f_frame'.index_hashmap
         /\ f_frame'.index_hashmap[coord] = f_frame.index_hashmap[coord]
    /\ \A coord \in DOMAIN f_frame'.index_hashmap :
         f_frame'.index_hashmap[coord]
           = event_coord_to_block_idx(f_frame', [coord |-> coord])
    /\ (f_last'.ret = "Ok" /\ f_last'.event.coord \in DOMAIN f_frame.index_hashmap)
         => f_last'.cube_idx = f_frame.index_hashmap[f_last'.event.coord].cube_idx
C16_CoordinateCache == [][CacheStep]_vars

\* the coordinate (27, 13, Some(2)) used a second time, with two other
\* coordinates in the cache
C16_Witness ==
    /\ f_last.ret = "Ok" /\ f_count = 3
    /\ f_last.event.coord = [x |-> 27, y |-> 13, c |-> 2]
    /\ LastDepth(219) = 2
    /\ Cardinality(DOMAIN f_frame.index_hashmap) = 2
    /\ f_frame.index_hashmap[f_last.event.coord] = [cube_idx |-> 1, block_idx |-> 219]
    /\ f_last.cube_idx = 1

\* a vector of exactly one block, with no event and fill_count 0
OneEmptyBlock(blocks) ==
    /\ Len(blocks) = 1
    /\ DOMAIN blocks[1].events = {}
    /\ blocks[1].fill_count = 0
AllZero(block_idx_map) == \A pos \in Positions : MapGet(block_idx_map, pos) = 0
FreshCube(cube, y, x) ==
    /\ cube.cube_idx_y = y /\ cube.cube_idx_x = x
    /\ OneEmptyBlock(cube.blocks_r) /\ OneEmptyBlock(cube.blocks_g)
    /\ OneEmptyBlock(cube.blocks_b)
    /\ AllZero(cube.block_idx_map_r) /\ AllZero(cube.block_idx_map_g)
    /\ AllZero(cube.block_idx_map_b)

\* C17: the frame Frame::new returns has exactly cube_width * cube_height
\* cubes, the cube at index y * cube_width + x has cube_idx_y = y and
\* cube_idx_x = x, one empty block per channel and every block_idx_map entry 0;
\* Frame::new(640, 480, color) has cube_width 40, cube_height 30, 1200 cubes.
C17_FrameConstruction ==
    (f_count = 0) =>
        /\ Len(f_frame.cubes) = f_frame.cube_width * f_frame.cube_height
        /\ \A y \in 0 .. f_frame.cube_height - 1 : \A x \in 0 .. f_frame.cube_width - 1 :
             FreshCube(f_frame.cubes[y * f_frame.cube_width + x + 1], y, x)
        /\ (f_frame = FrameNew(640, 480, f_frame.color)) =>
             /\ f_frame.cube_width = 40 /\ f_frame.cube_height = 30
             /\ Len(f_frame.cubes) = 1200

C17_Witness ==
    /\ f_count = 0 /\ f_last.ret = "none"
    /\ f_frame = FrameNew(640, 480, TRUE)
    /\ Len(f_frame.cubes) = 1200
    /\ f_frame.cubes[1200].cube_idx_y = 29 /\ f_frame.cubes[1200].cube_idx_x = 39
    /\ f_frame.cubes[41].cube_idx_y = 1 /\ f_frame.cubes[41].cube_idx_x = 0

\* block vector new keeps every block of old at its index, with every event
\* of it in its slot, and is at most one block longer
GrownFrom(old, new) ==
    /\ Len(old) <= Len(new) /\ Len(new) <= Len(old) + 1
    /\ \A k \in 1 .. Len(old) : \A pos \in DOMAIN old[k].events :
         /\ pos \in DOMAIN new[k].events
         /\ new[k].events[pos] = old[k].events[pos]

\* C18: across every add_event, in every cube and channel the number of
\* blocks does not decrease and grows by at most one, every block stays at its
\* index, and a slot that holds an event holds the same event afterwards.
GrowthStep ==
    /\ Len(f_frame'.cubes) = Len(f_frame.cubes)
    /\ \A j \in 1 .. Len(f_frame.cubes) : \A ch \in {0, 1, 2} :
         GrownFrom(BlocksOf(f_frame.cubes[j], ch), BlocksOf(f_frame'.cubes[j], ch))
C18_MonotoneGrowth == [][GrowthStep]_vars

\* B of cube 1 has grown to two blocks that hold, at the same slot, the two
\* events of (27, 13) in the order they came, and a third event came after
C18_Witness ==
    /\ f_count = 3 /\ f_last.ret = "Ok" /\ f_last.event.coord.c = 1
    /\ f_last.cube_idx = 1 /\ f_frame.color
    /\ Len(f_frame.cubes[2].blocks_b) = 2
    /\ f_frame.cubes[2].blocks_b[1].events[219] = [d |-> 9, delta_t |-> 255]
    /\ f_frame.cubes[2].blocks_b[2].events[219] = [d |-> 7, delta_t |-> 100]
    /\ Len(f_frame.cubes[2].blocks_g) = 1

\* C19: PlaneSize::new(width, height, channels) returns an error exactly when
\* at least one of the three is 0 and otherwise a plane that holds the three
\* values; the plane a caller holds, the default (1, 1, 1) included, has
\* strictly positive width, height and channels.
C19_PlaneValidation ==
    /\ (ps_ret.ret # "none") =>
         /\ (ps_ret.ret = "Err") <=> (0 \in {ps_args[1], ps_args[2], ps_args[3]})
         /\ (ps_ret.ret = "Ok") =>
               ps_ret.plane = [width |-> ps_args[1], height |-> ps_args[2],
                               channels |-> ps_args[3]]
    /\ ps_plane.width > 0 /\ ps_plane.height > 0 /\ ps_plane.channels > 0

\* a call of the core crate refused for its channels alone, after one that
\* gave the largest plane
C19_Witness ==
    /\ ps_crate = "core" /\ ps_args = <<640, 480, 0>> /\ ps_ret.ret = "Err"
    /\ ps_ret.err.InvalidPlane = [width |-> 640, height |-> 480, channels |-> 0]
    /\ ps_plane = [width |-> 65535, height |-> 65535, channels |-> 255]

\* encoder.encode(Some(&sym), ..) under ctx returns Err
Refused(ctx, sym, dtm) == ~(sym >= 0 /\ sym < AlphabetSize(ctx, dtm))
\* some encode call of AduInterBlock::compress on block returns Err
InterEncodeFails(block, dtm) ==
    \/ Refused(u8_general_context, block.shift_loss_param, dtm)
    \/ \E i \in Positions :
         \/ Refused(d_context, d_resid_offset(block.d_residuals[i]), dtm)
         \/ /\ block.d_residuals[i] # D_ENCODE_NO_EVENT
            /\ Refused(dt_context, dt_resid_offset_i16(block.t_residuals[i], dtm), dtm)

\* C20: when the encoding of a symbol fails while an inter block is
\* compressed (shift_loss_param, a D residual or a delta-t residual), compress
\* returns an error, never Ok(()).
C20_WriteErrorsSurfaced ==
    (c_pc = "compressed" /\ c_kind = "inter" /\ InterEncodeFails(c_input, c_dtm))
        => c_ret = "Err"

\* the delta-t residual 101 under delta_t_max = 100: compress has returned
\* Ok(()) and the stream lacks the symbols from that residual on
C20_Dropped ==
    /\ c_pc = "compressed" /\ c_ret = "Ok" /\ c_dtm = 100
    /\ c_input.d_residuals[0] = 0 /\ c_input.t_residuals[0] = 101
    /\ \A k \in 1 .. Len(c_enc.out) : c_enc.out[k].tag # "inter.t_residuals"
    /\ Len(c_enc.out) = 1 + BLOCK_SIZE_AREA

\* decompress met the end of the stream or an end-of-stream symbol
MetStreamEnd == c_pc \in {"decoded", "panic"} /\ c_dec.kind \in {"err", "none"}

\* C21: when the stream ends, or an end-of-stream symbol is decoded, before
\* the inter block or channel is complete, decompress does not abort the
\* program: it comes back to its caller (with an UnexpectedEof error).
C21_TruncationSurfaced == MetStreamEnd => c_pc # "panic"

\* an inter block's stream cut after its first symbol: the decode of the
\* first D residual finds nothing and the unwrap panics
C21_Aborted ==
    /\ c_kind = "inter" /\ c_pc = "panic" /\ c_dec.panic
    /\ Len(c_enc.out) = 1 /\ c_dec.kind = "err" /\ c_dec.pos = 2

\* the block holds, at an event position, a delta-t residual outside
\* [-delta_t_max, +delta_t_max]
DtOutOfRange(block, dtm) ==
    \E i \in Positions :
        /\ block.d_residuals[i] # D_ENCODE_NO_EVENT
        /\ (block.t_residuals[i] < 0 - dtm \/ block.t_residuals[i] > dtm)

\* C22: compressing an inter block with a delta-t residual outside
\* [-delta_t_max, +delta_t_max] at an event position returns an error, not
\* Ok(()).
C22_OutOfRangeRefused ==
    (c_pc = "compressed" /\ c_kind = "inter" /\ DtOutOfRange(c_input, c_dtm))
        => c_ret = "Err"

\* the residual -101 under delta_t_max = 100 at position 39, after an event
\* in range at position 0: Ok(()), and the stream ends with that event's symbol
C22_Accepted ==
    /\ c_pc = "compressed" /\ c_ret = "Ok" /\ c_dtm = 100
    /\ c_input.d_residuals[39] = 0 /\ c_input.t_residuals[39] = 0 - 101
    /\ c_input.d_residuals[0] = 0 - 2 /\ c_input.t_residuals[0] = 0 - 1
    /\ c_input.d_residuals[1] = D_ENCODE_NO_EVENT
    /\ Len(c_enc.out) = 2 + BLOCK_SIZE_AREA
    /\ c_enc.out[Len(c_enc.out)].tag = "inter.t_residuals"
    /\ c_enc.out[Len(c_enc.out)].pos = 0

(***************************************************************************)
(* More claims about the predictor.                                        *)
(***************************************************************************)
\* C23: when D changes by more than 20 either way, the delta_t the predictor
\* expects is previous.delta_t: the delta-t residual is
\* next.delta_t - previous.delta_t.
C23_LargeChangeFallback ==
    (p_pc = "out" /\ (p_next.d - p_prev.d > 20 \/ p_prev.d - p_next.d > 20)) =>
        /\ p_res.delta_t = p_next.delta_t - p_prev.delta_t
        /\ PredictedDeltaT(p_prev, p_next.d - p_prev.d, p_dtm) = p_prev.delta_t

\* D rises by 21 from a delta_t of 1, whose leading zeros would leave room
\* for the shift
C23_Witness ==
    /\ p_pc = "out" /\ p_next.d - p_prev.d = 21
    /\ p_prev.delta_t = 1 /\ p_next.delta_t = 400 /\ p_dtm = 10000
    /\ p_res = [d |-> 21, delta_t |-> 399]

\* C24: when D falls by 1 to 20, the delta_t the predictor expects is
\* previous.delta_t whatever previous.delta_t is: the delta-t residual is
\* next.delta_t - previous.delta_t.
C24_FallKeepsDeltaT ==
    (p_pc = "out" /\ p_prev.d - p_next.d >= 1 /\ p_prev.d - p_next.d <= 20) =>
        /\ p_res.delta_t = p_next.delta_t - p_prev.delta_t
        /\ PredictedDeltaT(p_prev, p_next.d - p_prev.d, p_dtm) = p_prev.delta_t

\* D falls by 5 from a delta_t of 5000, which the right shift takes to 156
C24_Witness ==
    /\ p_pc = "out" /\ p_prev.d - p_next.d = 5
    /\ p_prev.delta_t = 5000 /\ Shr32(p_prev.delta_t, 5) = 156
    /\ p_next.delta_t = 400 /\ p_res = [d |-> 0 - 5, delta_t |-> 0 - 4600]

\* C25: with previous.delta_t and next.delta_t at most delta_t_max, the
\* delta_t the predictor expects lies in [0, delta_t_max], the delta-t
\* residual in [-delta_t_max, +delta_t_max] and the D residual in [-255, 255].
C25_ResidualRange ==
    (p_pc = "out" /\ p_prev.delta_t <= p_dtm /\ p_next.delta_t <= p_dtm) =>
        /\ p_next.delta_t - p_res.delta_t >= 0
        /\ p_next.delta_t - p_res.delta_t <= p_dtm
        /\ p_res.delta_t >= 0 - p_dtm /\ p_res.delta_t <= p_dtm
        /\ p_res.d >= 0 - 255 /\ p_res.d <= 255

\* the shifted delta_t (20000) passes delta_t_max and is capped; with
\* next.delta_t = 0 the residual is -delta_t_max
C25_Witness ==
    /\ p_pc = "out" /\ p_dtm = 10000
    /\ p_prev.delta_t = 5000 /\ p_next.d - p_prev.d = 2 /\ p_next.delta_t = 0
    /\ p_res = [d |-> 2, delta_t |-> 0 - 10000]

(***************************************************************************)
(* More claims about the frame.                                            *)
(***************************************************************************)
\* the slot the next write at pos would use is empty: block_idx_map[pos] names
\* a block that does not hold pos, or the block that is yet to be pushed
NextSlotFree(blocks, block_idx_map, pos) ==
    (MapGet(block_idx_map, pos) < Len(blocks)) =>
        pos \notin DOMAIN blocks[MapGet(block_idx_map, pos) + 1].events

\* C26: no add_event call returns AlreadyExists, because in every cube and
\* channel the slot block_idx_map selects for a position is empty.  (A
\* position outside the map's entries and outside every block has entry 0
\* and an empty slot in block 0, so the positions looked at are the others.)
C26_NoAlreadyExists ==
    /\ f_last.ret # "AlreadyExists"
    /\ (f_last.ret # "panic") =>
         \A j \in 1 .. Len(f_frame.cubes) : \A ch \in {0, 1, 2} :
             \A pos \in DOMAIN MapOf(f_frame.cubes[j], ch)
                          \cup Occupied(BlocksOf(f_frame.cubes[j], ch)) :
                 NextSlotFree(BlocksOf(f_frame.cubes[j], ch),
                              MapOf(f_frame.cubes[j], ch), pos)

\* the coordinate (27, 13, None) written three times, each call Ok
C26_Witness ==
    /\ f_count = 3 /\ f_last.ret = "Ok"
    /\ f_last.event.coord = [x |-> 27, y |-> 13, c |-> NoChannel]
    /\ LastDepth(219) = 3 /\ Len(LastCube.blocks_r) = 3
    /\ \A k \in 1 .. 3 : 219 \in DOMAIN LastCube.blocks_r[k].events

\* C27: a Block::set_event on a slot that holds an event returns
\* AlreadyExists with the slot's index and leaves the blocks (the stored
\* events and fill_count) as they were; a set_event_for_channel that meets
\* AlreadyExists also leaves block_idx_map as it was.
OccupiedSlotStep ==
    /\ (f_count' = f_count + 1 /\ f_last'.call = "Block::set_event") =>
         /\ (f_last'.ret = "AlreadyExists")
               <=> (f_last'.idx \in DOMAIN
                        f_frame.cubes[1].blocks_r[f_last'.block].events)
         /\ (f_last'.ret = "AlreadyExists") => f_last'.result.idx = f_last'.idx
    /\ (f_count' = f_count + 1 /\ f_last'.ret = "AlreadyExists") =>
         /\ f_frame'.cubes[1].blocks_r = f_frame.cubes[1].blocks_r
         /\ f_frame'.cubes[1].block_idx_map_r = f_frame.cubes[1].block_idx_map_r
         /\ f_last'.idx \in DOMAIN f_frame.cubes[1].blocks_r[f_last'.block].events
C27_OccupiedSlotKept == [][OccupiedSlotStep]_vars

\* block_idx_map_r[0] was left at 0 by a direct Block::set_event; the
\* set_event_for_channel with another event at 0 was refused
C27_Witness ==
    /\ f_last.ret = "AlreadyExists" /\ f_last.call = "set_event_for_channel"
    /\ f_last.idx = 0 /\ f_last.event.d = 2
    /\ MapGet(f_frame.cubes[1].block_idx_map_r, 0) = 0
    /\ f_frame.cubes[1].blocks_r[1].events[0] = [d |-> 1, delta_t |-> 10]
    /\ f_frame.cubes[1].blocks_r[1].fill_count = 1

\* the largest entry of a block_idx_map (the entries it does not list are 0)
MaxDepth(block_idx_map) ==
    IF DOMAIN block_idx_map = {} THEN 0
    ELSE CHOOSE n \in { block_idx_map[pos] : pos \in DOMAIN block_idx_map } :
             \A pos \in DOMAIN block_idx_map : block_idx_map[pos] <= n

\* C28: in every cube and channel, block_idx_map[pos] <= len(blocks) at every
\* position, and len(blocks) is the largest entry of block_idx_map, or 1 when
\* every entry is 0.
C28_BlockCountIsDepth ==
    (f_last.ret # "panic") =>
        \A j \in 1 .. Len(f_frame.cubes) : \A ch \in {0, 1, 2} :
            /\ \A pos \in Positions :
                 MapGet(MapOf(f_frame.cubes[j], ch), pos)
                   <= Len(BlocksOf(f_frame.cubes[j], ch))
            /\ Len(BlocksOf(f_frame.cubes[j], ch))
                 = Max(1, MaxDepth(MapOf(f_frame.cubes[j], ch)))

\* the whole tile one event deep, its first position three deep
C28_Witness ==
    /\ f_last.ret = "Ok"
    /\ \A pos \in Positions : MapGet(f_frame.cubes[1].block_idx_map_r, pos) >= 1
    /\ MapGet(f_frame.cubes[1].block_idx_map_r, 0) = 3
    /\ MapGet(f_frame.cubes[1].block_idx_map_r, 255) = 1
    /\ Len(f_frame.cubes[1].blocks_r) = 3
    /\ Len(f_frame.cubes[1].blocks_g) = 1

\* the 16 x 16 tile of the plane an event lies in
TileOf(event) == <<event.coord.y \div BLOCK_SIZE, event.coord.x \div BLOCK_SIZE>>

\* C29: for an event inside the plane the frame was built for, add_event
\* computes a cube index smaller than the number of cubes, and accepted events
\* of different tiles have different cube indexes.
C29_CubeIndexInGrid ==
    (f_last.ret # "none") =>
        /\ f_last.cube_idx < Len(f_frame.cubes)
        /\ f_last.ret # "panic"
        /\ \A i \in 1 .. Len(f_log) :
             TileOf(f_log[i]) # TileOf(f_last.event)
                => LogCube(f_log[i]) # f_last.cube_idx

\* Frame::new(40, 20, true) has two cubes; the event at (35, 3) gets index 2
C29_OutsideGrid ==
    /\ ps_plane = [width |-> 40, height |-> 20, channels |-> 3]
    /\ Len(f_frame.cubes) = 2
    /\ f_last.event.coord.x = 35 /\ f_last.event.coord.y = 3
    /\ f_last.cube_idx = 2
    /\ f_last.ret = "panic"

(***************************************************************************)
(* More claims about the inter block.                                      *)
(***************************************************************************)
\* C30: a block returned by AduInterBlock::decompress has t_residuals[i] = 0 at
\* every position i whose d_residuals[i] is D_ENCODE_NO_EVENT, whatever the
\* encoded block held there.
C30_NoEventDecodesZero ==
    InterDecoded =>
        \A i \in Positions :
            c_output.d_residuals[i] = D_ENCODE_NO_EVENT => c_output.t_residuals[i] = 0

\* the encoded block held 5 at a no-event position, and a non-zero residual at
\* an event position came back
C30_Witness ==
    /\ InterDecoded
    /\ \E i \in Positions :
         /\ c_input.d_residuals[i] = D_ENCODE_NO_EVENT /\ c_input.t_residuals[i] = 5
         /\ c_output.d_residuals[i] = D_ENCODE_NO_EVENT /\ c_output.t_residuals[i] = 0
    /\ \E i \in Positions :
         /\ c_output.d_residuals[i] # D_ENCODE_NO_EVENT
         /\ c_output.t_residuals[i] = 0 - 1

(***************************************************************************)
(* Claims about the intra residual transforms.                             *)
(***************************************************************************)
\* the nearest occupied position before i, in row-major order
PrecedingEvent(i) == CHOOSE j \in DOMAIN ir_events :
                         /\ j < i
                         /\ \A k \in DOMAIN ir_events : k < i => k <= j
IsHead(i) == \A k \in DOMAIN ir_events : i <= k

\* C31: after the residual loop, d_residuals[i] differs from D_ENCODE_NO_EVENT
\* exactly at the positions that hold an event; the first occupied position
\* holds the head event's d and delta_t, every later occupied position the
\* residual of its event against the nearest occupied position before it.
C31_ResidualsAtEvents ==
    (ir_pc = "done") =>
        \A i \in Positions :
            /\ (ir_d[i] # D_ENCODE_NO_EVENT) <=> (i \in DOMAIN ir_events)
            /\ (i \in DOMAIN ir_events /\ IsHead(i)) =>
                   /\ ir_d[i] = ir_events[i].d
                   /\ ir_dt[i] = ir_events[i].delta_t
            /\ (i \in DOMAIN ir_events /\ ~IsHead(i)) =>
                   /\ ir_d[i] = predict_residual_from_prev(
                                    ir_events[PrecedingEvent(i)], ir_events[i], ir_dtm).d
                   /\ ir_dt[i] = predict_residual_from_prev(
                                    ir_events[PrecedingEvent(i)], ir_events[i], ir_dtm).delta_t

\* events at 0 and 5: the residual of the second is at position 4
C31_ResidualShifted ==
    /\ ir_pc = "done"
    /\ DOMAIN ir_events = {0, 5}
    /\ ir_d[0] = ir_events[0].d
    /\ ir_d[4] = ir_events[5].d - ir_events[0].d
    /\ ir_d[5] = D_ENCODE_NO_EVENT

\* C32: the DC coefficient is divided by dc_q(qparam, 0, 12) and each of the
\* 255 AC coefficients by ac_q(qparam, 0, 12).
C32_IntraQuantization ==
    (ir_pc = "done") =>
        /\ ir_arr[0] = TruncDiv(ir_coef[0], dc_q(ir_qparam, 0, 12))
        /\ \A i \in Positions \ {0} :
               ir_arr[i] = TruncDiv(ir_coef[i], ac_q(ir_qparam, 0, 12))

\* an AC coefficient of 1000 comes out as 1000 under a quantizer of 27
C32_AcUndivided ==
    /\ ir_pc = "done"
    /\ ir_qparam = 3
    /\ ir_coef[1] = 1000 /\ ir_arr[1] = 1000
    /\ ir_arr[0] = TruncDiv(ir_coef[0], 25)

(***************************************************************************)
(* Claims about the ADU.                                                   *)
(***************************************************************************)
\* C33: after any sequence of add_cube calls on Adu::new(), each channel's
\* num_cubes is the number of cubes stored in the channel, head_event_t is 0 and
\* no call has failed.
C33_CubeCounters ==
    /\ ad_last.ret # "panic"
    /\ (ad_build # "none") =>
          /\ ad_adu.head_event_t = 0
          /\ \A channel \in AduChannelTypes :
                ad_adu[ChannelField(channel)].num_cubes
                  = VecLen(ad_adu[ChannelField(channel)].cubes)

\* each accepted add_cube(cube, ch) appends the cube to channel ch and leaves
\* the cubes of the other channels and head_event_t as they were
AppendStep ==
    (ad_calls' = ad_calls + 1 /\ ad_last'.ret = "Ok") =>
        /\ ad_adu'.head_event_t = ad_adu.head_event_t
        /\ \A channel \in AduChannelTypes :
              ad_adu'[ChannelField(channel)].cubes =
                IF channel = ad_last'.channel
                THEN VecPush(ad_adu[ChannelField(channel)].cubes, ad_last'.cube)
                ELSE ad_adu[ChannelField(channel)].cubes
C33_AppendsToOneChannel == [][AppendStep]_vars

\* the 65536th cube of the R channel, in a build without overflow checks
C33_CounterWrapped ==
    /\ ad_build = "release"
    /\ ad_last.ret = "Ok" /\ ad_last.channel = "R"
    /\ VecLen(ad_adu.cubes_r.cubes) = U16_MAX + 1
    /\ ad_adu.cubes_r.num_cubes = 0

(***************************************************************************)
(* The width of the delta-t residual.                                      *)
(***************************************************************************)
\* the value is one an i16 holds
FitsI16(x) == x >= I16_MIN /\ x <= I16_MAX

\* C34 as stated: every delta-t residual the predictor returns for delta_t
\* values up to delta_t_max fits an i16, for every delta_t_max, 102000 included.
C34_ResidualFitsI16 ==
    (p_pc = "out") => FitsI16(p_res.delta_t)

\* C34 amended: the delta-t residual fits an i16 whenever delta_t_max is at most
\* 32767; in general its magnitude is at most delta_t_max, so for a larger
\* delta_t_max it fits an i16 only after a right shift by enough bits to bring
\* delta_t_max to 32767 or less.
ShiftToFit(dtm) == CHOOSE n \in 0 .. 31 : /\ dtm \div Pow2(n) <= I16_MAX
                                          /\ \A m \in 0 .. (n - 1) : dtm \div Pow2(m) > I16_MAX
Magnitude(x) == IF x >= 0 THEN x ELSE 0 - x
C34_ResidualFitsUpTo32767 ==
    (p_pc = "out") =>
        /\ (p_dtm <= I16_MAX => FitsI16(p_res.delta_t))
        /\ FitsI16(Magnitude(p_res.delta_t) \div Pow2(ShiftToFit(p_dtm)))

\* delta_t_max = 102000: the residual 102000 does not fit, its magnitude shifted
\* by two bits does
C34_Witness ==
    /\ p_pc = "out" /\ p_dtm = 102000
    /\ p_prev.delta_t = 0 /\ p_next.delta_t = 102000
    /\ p_res.delta_t = 102000 /\ AsI16(p_res.delta_t) # p_res.delta_t
    /\ ShiftToFit(p_dtm) = 2

(***************************************************************************)
(* Claims about the frequency model.                                       *)
(***************************************************************************)
RECURSIVE CountSum(_, _)
CountSum(tree, n) == IF n = 0 THEN 0 ELSE CountOf(tree, n - 1) + CountSum(tree, n - 1)
Counts(tree) == [k \in 1 .. Len(tree) |-> CountOf(tree, k - 1)]

\* every count is at least 1; total() is positive and the sum of the counts
Codable(trees) ==
    \A ctx \in ContextIds :
        /\ Len(trees[ctx]) = FmAlphabetSize(ctx)
        /\ \A symbol \in 0 .. (Len(trees[ctx]) - 1) : CountOf(trees[ctx], symbol) >= 1
        /\ total(trees[ctx]) = CountSum(trees[ctx], Len(trees[ctx]))
        /\ total(trees[ctx]) > 0

\* the counts after one more symbol: one count risen by 1, after every count
\* was halved rounding up if the rise would pass the width
OneMore(old, new) ==
    \E symbol \in 0 .. (Len(old) - 1) :
        \/ /\ old[symbol + 1] < MaxCount
           /\ new = [old EXCEPT ![symbol + 1] = @ + 1]
        \/ /\ old[symbol + 1] = MaxCount
           /\ new = [k \in 1 .. Len(old) |->
                       ((old[k] + 1) \div 2) + (IF k = symbol + 1 THEN 1 ELSE 0)]

ModelStep ==
    /\ Codable(fm_trees) /\ Codable(fm_trees')
    /\ \A ctx \in ContextIds : ctx # fm_ctx => fm_trees'[ctx] = fm_trees[ctx]
    /\ fm_ctx' # fm_ctx => fm_trees' = fm_trees
    /\ fm_seen' = fm_seen + 1 =>
           OneMore(Counts(fm_trees[fm_ctx]), Counts(fm_trees'[fm_ctx]))

\* C35: in every context and every reachable state of the model each symbol's
\* count is at least 1 (counts start at 1, rise by 1 per observed symbol, a
\* rescale halves every count rounding up), total() is positive and the sum of
\* the counts, and a context switch or an observation under one context leaves
\* the counts of the other contexts as they were.
C35_SymbolsStayCodable == [][ModelStep]_vars

\* after a switch to d_context and four symbols, the last one with a rescale
C35_Witness ==
    /\ fm_ctx = d_context /\ fm_seen = 4
    /\ Counts(fm_trees[d_context]) = <<3, 1, 1>>
    /\ total(fm_trees[d_context]) = 5
    /\ Counts(fm_trees[u8_general_context]) = <<1, 1, 1>>


(***************************************************************************)
(* Claims about the event pixel.                                           *)
(***************************************************************************)
PixelActive == px_pc # "none"
EmptyFired == PixelActive /\ px_fired.empty = "empty"
FullFired == PixelActive /\ px_fired.empty = "full"
\* the accumulated delta_t stays within delta_t_max
PixelTimeBounded == PixelActive => px_pixel.delta_t <= DeltaTMaxF32
\* no assertion of add_intensity or fire_event fails
PixelNoPanic == px_pc # "panic"
\* an empty event is fired at delta_t_max exactly, with d = 0 and delta_t_max
EmptyEventExact ==
    EmptyFired => /\ px_fired.delta_t = DeltaTMaxF32
                  /\ px_fired.event = [d |-> 0, delta_t |-> px_tracker.delta_t_max]
\* every other event carries a delta_t in 1 .. delta_t_max
FullEventCarriesTime ==
    FullFired => /\ 0 < px_fired.event.delta_t
                 /\ px_fired.event.delta_t <= px_tracker.delta_t_max

\* C36: during add_intensity the accumulated delta_t never exceeds
\* delta_t_max, an empty event is fired only at delta_t_max exactly and
\* carries d = 0 and delta_t = delta_t_max, every other fired event carries
\* 0 < delta_t <= delta_t_max, and no assertion of fire_event fails.
C36_PixelTimeBound ==
    /\ PixelTimeBounded
    /\ PixelNoPanic
    /\ EmptyEventExact
    /\ FullEventCarriesTime
\* an event fired after less than one tick carries a delta_t of 0
C36_EventWithoutTime ==
    /\ FullFired
    /\ ~px_fired.failed
    /\ px_fired.delta_t > 0
    /\ px_fired.event.delta_t = 0
    /\ px_sender # <<>>
    /\ px_sender[Len(px_sender)].delta_t = 0


(***************************************************************************)
(* Claims about the SimulProcessor.                                        *)
(***************************************************************************)
SimulActive == sm_run # "none"
SourceEnded == sm_answer = "end"
\* the last consume(1) returned a batch or the end of the video
SourceAnswered == sm_answer \in {"ok", "end"}
FramerStopped == sm_framer = "stopped"
RunReturned == sm_run = "returned"
ProcessAborted == sm_run = "aborted"
\* with the receiver gone a send fails: nothing is queued, run() leaves
SendAfterStop ==
    (SimulActive /\ ~ReceiverAlive) =>
        /\ sm_sent' = sm_sent
        /\ sm_queue' = sm_queue
        /\ sm_produced' # sm_produced => (sm_run' = "left" /\ sm_left' = "send")
\* run() sends only inside its loop
SendInLoop == (SimulActive /\ sm_run # "loop") => sm_sent' = sm_sent
\* the framer has ingested the batches 1, 2, .. and the channel holds the next ones
InOrder ==
    /\ \A i \in 1 .. Len(sm_received) : sm_received[i] = i
    /\ \A j \in 1 .. Len(sm_queue) : sm_queue[j] = Len(sm_received) + j

FrameLimitStop == sm_framer = "stopped" /\ sm_why = "limit"
\* with a positive frame_max no more than frame_max frames are written
WrittenWithinLimit ==
    (SimulActive /\ sm_frames.frame_max > 0) => sm_frames.written <= sm_frames.frame_max
\* without a frame limit the framing thread stops only on a closed channel
NoLimitNoStop ==
    (SimulActive /\ sm_frames.frame_max = 0) =>
        /\ ~FrameLimitStop
        /\ FramerStopped => sm_why = "closed"

\* C38: when frame_max > 0 the number of frames the framing thread writes
\* never exceeds frame_max; when frame_max = 0 the framing thread never stops
\* because of a frame limit, it stops only when the channel is closed.
C38_FrameLimit == WrittenWithinLimit /\ NoLimitNoStop
\* one write_multi_frame_bytes call takes the output past frame_max
C38_LimitOvershot ==
    /\ sm_frames.frame_max = 3
    /\ sm_frames.written > sm_frames.frame_max
    /\ FrameLimitStop

====
